---- MODULE Spec2Model ----
(***************************************************************************)
(* Read-through cache of Bathbot (src/core/redis_cache.rs), the user       *)
(* lookup, the scores request and prepare_scores built on it               *)
(* (src/commands/osu/mod.rs), and the user tables of the relational store  *)
(* (src/database/impls/osu_users.rs).                                      *)
(*                                                                         *)
(* Strings are sequences of one-character strings, so that formatting a    *)
(* key, replacing '_' by ' ' and comparing keys are computed, not assumed. *)
(* Bytes are sequences of naturals.                                        *)
(***************************************************************************)
EXTENDS Integers, Sequences, FiniteSets, TLC

\* ------------------------------------------------------------------ bounds
\* Requests issued one after another in a behaviour.
MaxRequests == 2
\* Repetitions of one request after its first run (repeat runs).
MaxRepeats == 2
\* Steps of the backend's clock in a behaviour (repeat runs).
MaxTicks == 2
\* Length of the generated user names whose keys are compared.
MaxKeyNameLen == 2
\* Calls of the relational store in a behaviour.
MaxDbCalls == 3
\* Calls of get_user_and_scores in a behaviour.
MaxJoins == 2

\* Scores in the longest list prepare_scores is given.
MaxScores == 130
\* The largest global_rank of a row and the largest rank asked for.
MaxRank == 4
\* The largest pp of a row and the largest pp asked for.
MaxPp == 14

\* ------------------------------------------------------- program constants
\* map_ids.chunks(50)
ChunkSize == 50
USER_SECONDS == 600
OSUTRACKER_STATS_SECONDS == 86400
OSUTRACKER_PP_GROUP_SECONDS == 86400
OSUTRACKER_COUNTS_SECONDS == 86400
MEDALS_SECONDS == 3600
BADGES_SECONDS == 7200
OSEKAI_RANKING == 7200
PP_RANKING_SECONDS == 1800

\* ------------------------------------------------------------ input domains
\* "a_b", "a b", "_a", "a_", "ab"
Names == { <<"a", "_", "b">>, <<"a", " ", "b">>, <<"_", "a">>,
           <<"a", "_">>, <<"a", "b">> }
\* GameMode as u8: Osu = 0, Taiko = 1
Modes == {0, 1}
UserOp == "osu_user"
PlainOps == {"badges", "medals", "osekai_ranking", "osutracker_pp_group",
             "osutracker_stats", "osutracker_counts", "pp_ranking"}
Ops == PlainOps \cup {UserOp}
\* The sets of names the osu! API may know: "a b" but not "a_b"; "a_b" but
\* not "a b"; neither of the two.
Worlds == { { <<"a", " ", "b">>, <<"a", "b">>, <<"_", "a">> },
            { <<"a", "_", "b">>, <<"a", "_">> },
            { <<"a", "b">> } }

NoneV == [some |-> FALSE]
Some(x) == [some |-> TRUE, v |-> x]

\* The arguments of a request: the fields an operation does not take are 0.
\* form: R::FORM of osekai_ranking ("r", "m"), country: Option<&str>.
NoArg == [name |-> <<>>, mode |-> 0, page |-> 0, country |-> NoneV,
          pp |-> 0, form |-> <<>>]
ArgsOf(op) ==
    CASE op = "osu_user" ->
           {[NoArg EXCEPT !.name = n, !.mode = m] : n \in Names, m \in Modes}
      [] op = "pp_ranking" ->
           {[NoArg EXCEPT !.mode = m, !.page = p, !.country = c] :
              m \in {0}, p \in {1, 12}, c \in {NoneV, Some(<<"d", "e">>)}}
      [] op = "osutracker_pp_group" -> {[NoArg EXCEPT !.pp = p] : p \in {100, 1000}}
      [] op = "osekai_ranking" -> {[NoArg EXCEPT !.form = f] : f \in {<<"r">>, <<"m">>}}
      [] OTHER -> {NoArg}

\* ------------------------------------------------------------- formatting
Digit(d) ==
    CASE d = 0 -> "0" [] d = 1 -> "1" [] d = 2 -> "2" [] d = 3 -> "3"
      [] d = 4 -> "4" [] d = 5 -> "5" [] d = 6 -> "6" [] d = 7 -> "7"
      [] d = 8 -> "8" [] d = 9 -> "9"

\* FmtInt writing the last digit alone.
FmtInt_LastDigit(n) == <<Digit(n % 10)>>

\* Display of an unsigned integer, as format!("{n}") writes it.
RECURSIVE FmtInt(_)
FmtInt(n) == IF n < 10 THEN <<Digit(n)>> ELSE FmtInt(n \div 10) \o <<Digit(n % 10)>>

\* The cache key of each operation.
KeyOf(op, a) ==
    CASE op = "badges" ->
           <<"o","s","e","k","a","i","_","b","a","d","g","e","s">>
      [] op = "medals" ->
           <<"o","s","e","k","a","i","_","m","e","d","a","l","s">>
      [] op = "osekai_ranking" ->
           <<"o","s","e","k","a","i","_","r","a","n","k","i","n","g","_">> \o a.form
      [] op = "osutracker_pp_group" ->
           <<"o","s","u","t","r","a","c","k","e","r","_","p","p","_",
             "g","r","o","u","p","_">> \o FmtInt(a.pp)
      [] op = "osutracker_stats" ->
           <<"o","s","u","t","r","a","c","k","e","r","_","s","t","a","t","s">>
      [] op = "osutracker_counts" ->
           <<"o","s","u","t","r","a","c","k","e","r","_","i","d","_",
             "c","o","u","n","t","s">>
      [] op = "pp_ranking" ->
           <<"p","p","_","r","a","n","k","i","n","g","_">> \o FmtInt(a.mode)
             \o <<"_">> \o FmtInt(a.page)
             \o (IF a.country.some THEN <<"_">> \o a.country.v ELSE <<>>)
      [] op = "osu_user" ->
           <<"_", "_">> \o a.name \o <<"_">> \o FmtInt(a.mode)

\* TtlOf with the expiry of the medals passed for the badges.
TtlOf_BadgesAsMedals(op) ==
    CASE op = "badges" -> MEDALS_SECONDS
      [] op = "medals" -> MEDALS_SECONDS
      [] op = "osekai_ranking" -> OSEKAI_RANKING
      [] op = "osutracker_pp_group" -> OSUTRACKER_PP_GROUP_SECONDS
      [] op = "osutracker_stats" -> OSUTRACKER_STATS_SECONDS
      [] op = "osutracker_counts" -> OSUTRACKER_COUNTS_SECONDS
      [] op = "pp_ranking" -> PP_RANKING_SECONDS
      [] op = "osu_user" -> USER_SECONDS

\* The expiry each operation passes to set_ex.
TtlOf(op) ==
    CASE op = "badges" -> BADGES_SECONDS
      [] op = "medals" -> MEDALS_SECONDS
      [] op = "osekai_ranking" -> OSEKAI_RANKING
      [] op = "osutracker_pp_group" -> OSUTRACKER_PP_GROUP_SECONDS
      [] op = "osutracker_stats" -> OSUTRACKER_STATS_SECONDS
      [] op = "osutracker_counts" -> OSUTRACKER_COUNTS_SECONDS
      [] op = "pp_ranking" -> PP_RANKING_SECONDS
      [] op = "osu_user" -> USER_SECONDS

\* ------------------------------------------------------------ name handling
\* str::cow_replace('_', " "): every '_' becomes ' '.
Replaced(name) == [i \in 1..Len(name) |-> IF name[i] = "_" THEN " " ELSE name[i]]

\* whitespaced_name without the test on the last character.
whitespaced_name_NoEndCheck(name) ==
    IF name # <<>> /\ name[1] = "_"
    THEN NoneV
    ELSE IF Replaced(name) = name THEN NoneV ELSE Some(Replaced(name))

\* UserArgs::whitespaced_name
whitespaced_name(name) ==
    IF name # <<>> /\ (name[1] = "_" \/ name[Len(name)] = "_")
    THEN NoneV
    ELSE IF Replaced(name) = name THEN NoneV ELSE Some(Replaced(name))

\* --------------------------------------------------------- upstream values
Code(c) ==
    CASE c = "a" -> 97 [] c = "b" -> 98 [] c = "_" -> 95 [] c = " " -> 32
      [] c = "r" -> 114 [] c = "m" -> 109
Char(n) == CASE n = 97 -> "a" [] n = 98 -> "b" [] n = 95 -> "_" [] n = 32 -> " "

\* The user the osu! API holds under a name, for a mode. Users whose name
\* has three characters have a user page, the others have none.
UserId(name) ==
    CASE name = <<"a", "_", "b">> -> 1 [] name = <<"a", " ", "b">> -> 2
      [] name = <<"_", "a">> -> 3 [] name = <<"a", "_">> -> 4
      [] name = <<"a", "b">> -> 5 [] OTHER -> 6
UserOf(name, mode) ==
    [user_id |-> UserId(name), username |-> name, mode |-> mode,
     page |-> IF Len(name) = 3 THEN Some("html") ELSE NoneV]

\* The value the upstream service of a plain operation holds.
PayloadOf(op, a) ==
    CASE op = "badges" -> 1 [] op = "medals" -> 2
      [] op = "osekai_ranking" -> 10 + (Code(a.form[1]) % 10)
      [] op = "osutracker_pp_group" -> a.pp
      [] op = "osutracker_stats" -> 4 [] op = "osutracker_counts" -> 5
      [] op = "pp_ranking" -> 20 + a.mode * 100 + a.page + (IF a.country.some THEN 50 ELSE 0)

\* rkyv::to_bytes of a User, and the archived_root + deserialize that reads
\* it back. The bytes read are bytes to_bytes wrote, in a buffer the
\* allocator aligned: archived_root is taken to read what was written.
SerializeUser(u) ==
    <<u.user_id, u.mode, IF u.page.some THEN 1 ELSE 0, Len(u.username)>>
      \o [i \in 1..Len(u.username) |-> Code(u.username[i])]
DeserializeUser(b) ==
    [user_id |-> b[1], username |-> [i \in 1..b[4] |-> Char(b[4 + i])],
     mode |-> b[2], page |-> IF b[3] = 1 THEN Some("html") ELSE NoneV]
\* rkyv::to_bytes of the value of a plain operation.
OpTag(op) ==
    CASE op = "badges" -> 1 [] op = "medals" -> 2 [] op = "osekai_ranking" -> 3
      [] op = "osutracker_pp_group" -> 4 [] op = "osutracker_stats" -> 5
      [] op = "osutracker_counts" -> 6 [] op = "pp_ranking" -> 7
SerializePlain(op, v) == <<OpTag(op), v>>

\* ArchivedBytes::new over the two buffer provenances of enum Bytes.
ArchivedVec(b) == [buf |-> "Vec", bytes |-> b]
ArchivedAligned(b) == [buf |-> "AlignedVec", bytes |-> b]
\* ArchivedBytes::to_inner
ToInner(ab) == ab.bytes[2]
\* ------------------------------------------------------------------- state
VARIABLES
    registered, \* the names the osu! API knows (unchanged during a behaviour)
    now,        \* the clock of the cache backend, in seconds
    cache,      \* the cache backend: the keys written -> [bytes, at, exp]
    stats,      \* ctx.stats: the hit counter of each operation
    task,       \* the request in progress: position, locals, calls made
    peer,       \* a second request under way at the same time, while suspended
    nreq,       \* requests started so far
    ticks,      \* clock steps taken so far
    prev,       \* repeat runs: the previous result, and the last SET that succeeded
    kq,         \* key formatting: two requests and the keys formatted for them
    db,         \* the relational store: user names, stats rows, the last statement
    ps,         \* prepare_scores: position, scores, ids, calls made
    sc,         \* get_user_and_scores: the scores branch and the join
    rk          \* rank and pp approximation: arguments, neighbour rows, result

vars == <<registered, now, cache, stats, task, peer, nreq, ticks, prev, kq, db, ps, sc, rk>>
\* The parts of the state the cache operations do not touch.
others == <<peer, kq, db, ps, sc, rk>>
\* Their values while no key is formatted, no statement runs on the store,
\* no score is prepared and no join is under way.
NoKeys == [pc |-> "idle"]
NoDb == [pc |-> "idle"]
NoScores == [pc |-> "idle"]
NoJoin == [pc |-> "idle"]
NoRank == [pc |-> "idle"]

\* The backend before any write: no key.
NoEntries == [k \in {} |-> <<>>]
NoResult == [kind |-> "none"]
NoPrev == [result |-> NoResult, via |-> "none", set |-> NoneV]
Ok(v) == [kind |-> "Ok", val |-> v]
NotFound == [kind |-> "NotFound"]
Transient == [kind |-> "Err"]

IdleTask ==
    [pc |-> "idle", op |-> "none", arg |-> NoArg, orig |-> <<>>, key |-> <<>>,
     conn |-> FALSE, via |-> "none", fetched |-> NoneV, trace |-> <<>>,
     result |-> NoResult, lookups |-> <<>>, cache0 |-> NoEntries,
     stats0 |-> [o \in Ops |-> 0]]

\* What conn.get::<_, Vec<u8>>(key) yields when the command succeeds: the
\* stored bytes, and the empty vector for a key that is absent or expired.
GetBytes(k) == IF k \in DOMAIN cache /\ now < cache[k].exp THEN cache[k].bytes ELSE <<>>

\* set without an expiry.
SetEx_NoExpiry(k, b, ttl) ==
    [x \in DOMAIN cache \cup {k} |->
       IF x = k THEN [bytes |-> b, at |-> now, exp |-> now + 1000000] ELSE cache[x]]

\* set_ex(key, bytes, seconds) on the backend.
SetEx(k, b, ttl) ==
    [x \in DOMAIN cache \cup {k} |->
       IF x = k THEN [bytes |-> b, at |-> now, exp |-> now + ttl] ELSE cache[x]]

Init ==
    /\ registered \in Worlds
    /\ now = 0
    /\ cache = NoEntries
    /\ stats = [o \in Ops |-> 0]
    /\ task = IdleTask /\ peer = IdleTask
    /\ nreq = 0
    /\ ticks = 0
    /\ prev = NoPrev
    /\ kq = NoKeys /\ db = NoDb /\ ps = NoScores /\ sc = NoJoin /\ rk = NoRank

\* The first statements of every operation: the key is formatted and the
\* pooled connection is about to be requested. cache0 and stats0 record the
\* backend and the counters as the operation finds them.
Begin(op, a, orig, lookups) ==
    [IdleTask EXCEPT !.pc = "conn", !.op = op, !.arg = a, !.orig = orig,
                     !.key = KeyOf(op, a), !.lookups = lookups, !.cache0 = cache,
                     !.stats0 = stats]

\* A command calls get_user(name, mode): the first osu_user lookup starts.
get_user(a) ==
    /\ task.pc \in {"idle", "done"}
    /\ nreq < MaxRequests
    /\ task' = Begin(UserOp, a, a.name, <<>>)
    /\ nreq' = nreq + 1
    /\ prev' = NoPrev
    /\ UNCHANGED <<registered, now, cache, stats, ticks, others>>

\* A command calls one of the seven operations without persistence.
StartPlain(op, a) ==
    /\ task.pc \in {"idle", "done"}
    /\ nreq < MaxRequests
    /\ task' = Begin(op, a, <<>>, <<>>)
    /\ nreq' = nreq + 1
    /\ prev' = NoPrev
    /\ UNCHANGED <<registered, now, cache, stats, ticks, others>>

\* GetConn with the connection error propagated to the caller.
GetConn_Propagates(ok) ==
    /\ task.pc = "conn"
    /\ task' = IF ok
               THEN [task EXCEPT !.pc = "get", !.conn = TRUE]
               ELSE [task EXCEPT !.pc = "ret", !.via = "noconn", !.result = Transient,
                                 !.trace = Append(@, [ev |-> "CONN_ERR"])]
    /\ UNCHANGED <<registered, now, cache, stats, nreq, ticks, prev, others>>

\* GetConn with the upstream request made right after the connection is had.
GetConn_SkipsGet(ok) ==
    /\ task.pc = "conn"
    /\ task' = IF ok
               THEN [task EXCEPT !.pc = "fetch", !.via = "miss", !.conn = TRUE]
               ELSE [task EXCEPT !.pc = "fetch", !.via = "noconn",
                                 !.trace = Append(@, [ev |-> "CONN_ERR"])]
    /\ UNCHANGED <<registered, now, cache, stats, nreq, ticks, prev, others>>

\* self.ctx.redis_client().get().await
GetConn(ok) ==
    /\ task.pc = "conn"
    /\ task' = IF ok
               THEN [task EXCEPT !.pc = "get", !.conn = TRUE]
               ELSE [task EXCEPT !.pc = "fetch", !.via = "noconn",
                                 !.trace = Append(@, [ev |-> "CONN_ERR"])]
    /\ UNCHANGED <<registered, now, cache, stats, nreq, ticks, prev, others>>

\* The value a hit returns: the deserialized user, or the wrapped bytes.
HitValue(op, bytes) == IF op = UserOp THEN DeserializeUser(bytes) ELSE ArchivedVec(bytes)

\* CacheGet without the early return of the hit.
CacheGet_FallThrough(ok) ==
    /\ task.pc = "get"
    /\ LET bytes == IF ok THEN GetBytes(task.key) ELSE <<>>
           ev == [ev |-> "GET", key |-> task.key, ok |-> ok, bytes |-> bytes, at |-> now]
       IN /\ stats' = IF ok /\ bytes # <<>> THEN [stats EXCEPT ![task.op] = @ + 1] ELSE stats
          /\ task' = [task EXCEPT !.pc = "fetch", !.trace = Append(@, ev),
                        !.via = IF ok /\ bytes # <<>> THEN "hit" ELSE "miss"]
    /\ UNCHANGED <<registered, now, cache, nreq, ticks, prev, others>>

\* CacheGet without the test for empty bytes.
CacheGet_NoEmptyCheck(ok) ==
    /\ task.pc = "get"
    /\ LET bytes == IF ok THEN GetBytes(task.key) ELSE <<>>
           ev == [ev |-> "GET", key |-> task.key, ok |-> ok, bytes |-> bytes, at |-> now]
       IN IF ok
          THEN /\ stats' = [stats EXCEPT ![task.op] = @ + 1]
               /\ task' = [task EXCEPT !.pc = "ret", !.via = "hit", !.conn = FALSE,
                                       !.trace = Append(@, ev),
                                       !.result = Ok(ArchivedVec(bytes))]
          ELSE /\ stats' = stats
               /\ task' = [task EXCEPT !.pc = "fetch", !.via = "miss",
                                       !.trace = Append(@, ev)]
    /\ UNCHANGED <<registered, now, cache, nreq, ticks, prev, others>>

\* CacheGet with the counter incremented by every GET that succeeds.
CacheGet_CountsEveryGet(ok) ==
    /\ task.pc = "get"
    /\ LET bytes == IF ok THEN GetBytes(task.key) ELSE <<>>
           ev == [ev |-> "GET", key |-> task.key, ok |-> ok, bytes |-> bytes, at |-> now]
       IN /\ stats' = IF ok THEN [stats EXCEPT ![task.op] = @ + 1] ELSE stats
          /\ task' = IF ok /\ bytes # <<>>
                     THEN [task EXCEPT !.pc = "ret", !.via = "hit", !.conn = FALSE,
                                       !.trace = Append(@, ev),
                                       !.result = Ok(HitValue(task.op, bytes))]
                     ELSE [task EXCEPT !.pc = "fetch", !.via = "miss",
                                       !.trace = Append(@, ev)]
    /\ UNCHANGED <<registered, now, cache, nreq, ticks, prev, others>>

\* conn.get(key).await and the test on its result.
CacheGet(ok) ==
    /\ task.pc = "get"
    /\ LET bytes == IF ok THEN GetBytes(task.key) ELSE <<>>
           ev == [ev |-> "GET", key |-> task.key, ok |-> ok, bytes |-> bytes, at |-> now]
       IN IF ok /\ bytes # <<>>
          THEN /\ stats' = [stats EXCEPT ![task.op] = @ + 1]
               /\ task' = [task EXCEPT !.pc = "ret", !.via = "hit", !.conn = FALSE,
                                       !.trace = Append(@, ev),
                                       !.result = Ok(HitValue(task.op, bytes))]
          ELSE /\ stats' = stats
               /\ task' = [task EXCEPT !.pc = "fetch", !.via = "miss",
                                       !.trace = Append(@, ev)]
    /\ UNCHANGED <<registered, now, cache, nreq, ticks, prev, others>>
\* What the upstream service can answer: its data, or a transient failure.
\* performance_rankings can also answer NotFound (an unknown country).
UpstreamOutcomes(op, a) ==
    IF op = UserOp
    THEN {IF a.name \in registered THEN Ok(UserOf(a.name, a.mode)) ELSE NotFound, Transient}
    ELSE {Ok(PayloadOf(op, a)), Transient} \cup (IF op = "pp_ranking" THEN {NotFound} ELSE {})

\* Fetch with the cleanup arm taken on every error of the user request.
Fetch_CleanupOnAnyError ==
    /\ task.pc = "fetch"
    /\ \E out \in UpstreamOutcomes(task.op, task.arg) :
         LET t == [task EXCEPT !.trace = Append(@, [ev |-> "FETCH", arg |-> task.arg,
                                                     out |-> out.kind])]
         IN task' =
              CASE out.kind = "Ok" /\ task.op = UserOp ->
                     [t EXCEPT !.pc = "upsert", !.fetched = Some(out.val)]
                [] out.kind = "Ok" /\ task.op # UserOp /\ task.conn ->
                     [t EXCEPT !.pc = "set", !.fetched = Some(out.val)]
                [] out.kind = "Ok" /\ task.op # UserOp /\ ~task.conn ->
                     [t EXCEPT !.pc = "ret", !.fetched = Some(out.val),
                        !.result = Ok(ArchivedAligned(SerializePlain(task.op, out.val)))]
                [] out.kind # "Ok" /\ task.op = UserOp ->
                     [t EXCEPT !.pc = "remove"]
                [] OTHER ->
                     [t EXCEPT !.pc = "ret", !.conn = FALSE, !.result = out]
    /\ UNCHANGED <<registered, now, cache, stats, nreq, ticks, prev, others>>

\* Fetch with the fetched user written to the cache before any upsert.
Fetch_SetBeforeUpsert ==
    /\ task.pc = "fetch"
    /\ \E out \in UpstreamOutcomes(task.op, task.arg) :
         LET t == [task EXCEPT !.trace = Append(@, [ev |-> "FETCH", arg |-> task.arg,
                                                     out |-> out.kind])]
         IN task' =
              CASE out.kind = "Ok" /\ task.op = UserOp ->
                     IF task.conn
                     THEN [t EXCEPT !.pc = "set", !.fetched = Some(out.val)]
                     ELSE [t EXCEPT !.pc = "upsert", !.fetched = Some(out.val)]
                [] out.kind = "Ok" /\ task.op # UserOp /\ task.conn ->
                     [t EXCEPT !.pc = "set", !.fetched = Some(out.val)]
                [] out.kind = "Ok" /\ task.op # UserOp /\ ~task.conn ->
                     [t EXCEPT !.pc = "ret", !.fetched = Some(out.val),
                        !.result = Ok(ArchivedAligned(SerializePlain(task.op, out.val)))]
                [] out.kind = "NotFound" /\ task.op = UserOp ->
                     [t EXCEPT !.pc = "remove"]
                [] OTHER ->
                     [t EXCEPT !.pc = "ret", !.conn = FALSE, !.result = out]
    /\ UNCHANGED <<registered, now, cache, stats, nreq, ticks, prev, others>>

\* Fetch with the user returned without an upsert when there is no connection.
Fetch_NoUpsertWithoutConn ==
    /\ task.pc = "fetch"
    /\ \E out \in UpstreamOutcomes(task.op, task.arg) :
         LET t == [task EXCEPT !.trace = Append(@, [ev |-> "FETCH", arg |-> task.arg,
                                                     out |-> out.kind])]
         IN task' =
              CASE out.kind = "Ok" /\ task.op = UserOp ->
                     IF task.conn
                     THEN [t EXCEPT !.pc = "upsert", !.fetched = Some(out.val)]
                     ELSE [t EXCEPT !.pc = "ret", !.fetched = Some(out.val),
                                    !.result = Ok(out.val)]
                [] out.kind = "Ok" /\ task.op # UserOp /\ task.conn ->
                     [t EXCEPT !.pc = "set", !.fetched = Some(out.val)]
                [] out.kind = "Ok" /\ task.op # UserOp /\ ~task.conn ->
                     [t EXCEPT !.pc = "ret", !.fetched = Some(out.val),
                        !.result = Ok(ArchivedAligned(SerializePlain(task.op, out.val)))]
                [] out.kind = "NotFound" /\ task.op = UserOp ->
                     [t EXCEPT !.pc = "remove"]
                [] OTHER ->
                     [t EXCEPT !.pc = "ret", !.conn = FALSE, !.result = out]
    /\ UNCHANGED <<registered, now, cache, stats, nreq, ticks, prev, others>>

\* The upstream request and the match / `?` on its result.
Fetch ==
    /\ task.pc = "fetch"
    /\ \E out \in UpstreamOutcomes(task.op, task.arg) :
         LET t == [task EXCEPT !.trace = Append(@, [ev |-> "FETCH", arg |-> task.arg,
                                                     out |-> out.kind])]
         IN task' =
              CASE out.kind = "Ok" /\ task.op = UserOp ->
                     [t EXCEPT !.pc = "upsert", !.fetched = Some(out.val)]
                [] out.kind = "Ok" /\ task.op # UserOp /\ task.conn ->
                     [t EXCEPT !.pc = "set", !.fetched = Some(out.val)]
                [] out.kind = "Ok" /\ task.op # UserOp /\ ~task.conn ->
                     [t EXCEPT !.pc = "ret", !.fetched = Some(out.val),
                        !.result = Ok(ArchivedAligned(SerializePlain(task.op, out.val)))]
                [] out.kind = "NotFound" /\ task.op = UserOp ->
                     [t EXCEPT !.pc = "remove"]
                [] OTHER ->
                     [t EXCEPT !.pc = "ret", !.conn = FALSE, !.result = out]
    /\ UNCHANGED <<registered, now, cache, stats, nreq, ticks, prev, others>>

\* remove_osu_user_stats with the error of the delete propagated.
remove_osu_user_stats_Propagates(ok) ==
    /\ task.pc = "remove"
    /\ task' = [task EXCEPT !.pc = "ret", !.conn = FALSE,
                  !.result = IF ok THEN NotFound ELSE Transient,
                  !.trace = Append(@, [ev |-> "REMOVE", name |-> task.arg.name, ok |-> ok])]
    /\ UNCHANGED <<registered, now, cache, stats, nreq, ticks, prev, others>>

\* The NotFound arm: remove_osu_user_stats(args.name), its error only logged.
remove_osu_user_stats(ok) ==
    /\ task.pc = "remove"
    /\ task' = [task EXCEPT !.pc = "ret", !.conn = FALSE, !.result = NotFound,
                  !.trace = Append(@, [ev |-> "REMOVE", name |-> task.arg.name, ok |-> ok])]
    /\ UNCHANGED <<registered, now, cache, stats, nreq, ticks, prev, others>>

\* upsert_osu_user(&user, args.mode), its error only logged. Without a
\* connection the operation returns the user right after it.
upsert_osu_user(ok) ==
    /\ task.pc = "upsert"
    /\ LET ev == [ev |-> "UPSERT_USER", user |-> task.fetched.v, mode |-> task.arg.mode,
                  ok |-> ok]
       IN task' = IF task.conn
                  THEN [task EXCEPT !.pc = "set", !.trace = Append(@, ev)]
                  ELSE [task EXCEPT !.pc = "ret", !.trace = Append(@, ev),
                                    !.result = Ok(task.fetched.v)]
    /\ UNCHANGED <<registered, now, cache, stats, nreq, ticks, prev, others>>

\* user.page.take()
TakePage(u) == [u EXCEPT !.page = NoneV]

\* The value a miss with a connection returns, and the bytes it caches.
\* The bytes of a user serialized before its page is taken.
MissBytes_WithPage(op, v) == IF op = UserOp THEN SerializeUser(v) ELSE SerializePlain(op, v)
MissBytes(op, v) == IF op = UserOp THEN SerializeUser(TakePage(v)) ELSE SerializePlain(op, v)
MissValue(op, v) == IF op = UserOp THEN TakePage(v) ELSE ArchivedAligned(SerializePlain(op, v))

\* CacheSet with the error of set_ex propagated.
CacheSet_Propagates(okSet, okName) ==
    /\ task.pc = "set"
    /\ LET bytes == MissBytes(task.op, task.fetched.v)
           set == [ev |-> "SET", key |-> task.key, bytes |-> bytes,
                   ttl |-> TtlOf(task.op), ok |-> okSet, at |-> now]
           upd == [ev |-> "UPSERT_NAME", user_id |-> task.fetched.v.user_id,
                   username |-> task.fetched.v.username, ok |-> okName]
       IN /\ cache' = IF okSet THEN SetEx(task.key, bytes, TtlOf(task.op)) ELSE cache
          /\ task' = [task EXCEPT !.pc = "ret", !.conn = FALSE,
                        !.trace = IF task.op = UserOp THEN @ \o <<set, upd>> ELSE Append(@, set),
                        !.result = IF okSet THEN Ok(MissValue(task.op, task.fetched.v))
                                   ELSE Transient]
    /\ UNCHANGED <<registered, now, stats, nreq, ticks, prev, others>>

\* The write-through: set_ex with the operation's expiry, for osu_user
\* joined with upsert_osu_name; both errors are only logged.
CacheSet(okSet, okName) ==
    /\ task.pc = "set"
    /\ LET bytes == MissBytes(task.op, task.fetched.v)
           set == [ev |-> "SET", key |-> task.key, bytes |-> bytes,
                   ttl |-> TtlOf(task.op), ok |-> okSet, at |-> now]
           upd == [ev |-> "UPSERT_NAME", user_id |-> task.fetched.v.user_id,
                   username |-> task.fetched.v.username, ok |-> okName]
       IN /\ cache' = IF okSet THEN SetEx(task.key, bytes, TtlOf(task.op)) ELSE cache
          /\ task' = [task EXCEPT !.pc = "ret", !.conn = FALSE,
                        !.trace = IF task.op = UserOp THEN @ \o <<set, upd>> ELSE Append(@, set),
                        !.result = Ok(MissValue(task.op, task.fetched.v))]
    /\ UNCHANGED <<registered, now, stats, nreq, ticks, prev, others>>

\* Return with a retry after every NotFound, not only after the first.
Return_RetryAgain ==
    /\ task.pc = "ret"
    /\ LET look == Append(task.lookups, [name |-> task.arg.name, key |-> task.key,
                                          via |-> task.via, result |-> task.result])
           alt == whitespaced_name(task.orig)
       IN task' = IF task.op = UserOp /\ alt.some /\ task.result = NotFound
                  THEN Begin(UserOp, [task.arg EXCEPT !.name = alt.v], task.orig, look)
                  ELSE [task EXCEPT !.pc = "done", !.lookups = look]
    /\ UNCHANGED <<registered, now, cache, stats, nreq, ticks, prev, others>>

\* The operation returns to its caller. In get_user, a NotFound of the first
\* lookup of a name with an alternative starts the second lookup; every
\* other result is the caller's result.
Return ==
    /\ task.pc = "ret"
    /\ LET look == Append(task.lookups, [name |-> task.arg.name, key |-> task.key,
                                          via |-> task.via, result |-> task.result])
           alt == whitespaced_name(task.orig)
       IN task' = IF task.op = UserOp /\ alt.some /\ task.lookups = <<>>
                     /\ task.result = NotFound
                  THEN Begin(UserOp, [task.arg EXCEPT !.name = alt.v], task.orig, look)
                  ELSE [task EXCEPT !.pc = "done", !.lookups = look]
    /\ UNCHANGED <<registered, now, cache, stats, nreq, ticks, prev, others>>

Next ==
    \/ \E a \in ArgsOf(UserOp) : get_user(a)
    \/ \E op \in PlainOps : \E a \in ArgsOf(op) : StartPlain(op, a)
    \/ \E ok \in BOOLEAN : GetConn(ok)
    \/ \E ok \in BOOLEAN : CacheGet(ok)
    \/ Fetch
    \/ \E ok \in BOOLEAN : remove_osu_user_stats(ok)
    \/ \E ok \in BOOLEAN : upsert_osu_user(ok)
    \/ \E okSet \in BOOLEAN, okName \in BOOLEAN : CacheSet(okSet, okName)
    \/ Return

Spec == Init /\ [][Next]_vars

\* ------------------------------------------------------------- repeat runs
\* The same request is issued again after it has returned, while the clock
\* of the backend advances between two requests: by the operation's expiry
\* less a second, or by two seconds.
Repeat ==
    /\ task.pc = "done"
    /\ nreq < 1 + MaxRepeats
    /\ prev' = [result |-> task.result, via |-> task.via,
                set |-> IF \E i \in DOMAIN task.trace :
                               task.trace[i].ev = "SET" /\ task.trace[i].ok
                        THEN Some(task.trace[Len(task.trace) - (IF task.op = UserOp THEN 1 ELSE 0)])
                        ELSE prev.set]
    /\ task' = Begin(task.op, [task.arg EXCEPT !.name = task.orig], task.orig, <<>>)
    /\ nreq' = nreq + 1
    /\ UNCHANGED <<registered, now, cache, stats, ticks, others>>

First ==
    /\ task.pc = "idle"
    /\ \/ \E a \in ArgsOf(UserOp) : get_user(a)
       \/ \E op \in PlainOps : \E a \in ArgsOf(op) : StartPlain(op, a)

Tick ==
    /\ task.pc = "done"
    /\ ticks < MaxTicks
    /\ \E d \in {2, TtlOf(task.op) - 1} : now' = now + d
    /\ ticks' = ticks + 1
    /\ UNCHANGED <<registered, cache, stats, task, nreq, prev, others>>

NextRepeat ==
    \/ First
    \/ Repeat
    \/ Tick
    \/ \E ok \in BOOLEAN : GetConn(ok)
    \/ \E ok \in BOOLEAN : CacheGet(ok)
    \/ Fetch
    \/ \E ok \in BOOLEAN : remove_osu_user_stats(ok)
    \/ \E ok \in BOOLEAN : upsert_osu_user(ok)
    \/ \E okSet \in BOOLEAN, okName \in BOOLEAN : CacheSet(okSet, okName)
    \/ Return

SpecRepeat == Init /\ [][NextRepeat]_vars
\* ------------------------------------------------- two requests at a time
\* Two commands call the same operation with the same arguments; the
\* runtime polls one request at a time and may change over at every await.
StartPair(op, a) ==
    /\ task.pc = "idle" /\ peer.pc = "idle" /\ nreq = 0
    /\ task' = Begin(op, a, a.name, <<>>)
    /\ peer' = Begin(op, a, a.name, <<>>)
    /\ nreq' = 2
    /\ UNCHANGED <<registered, now, cache, stats, ticks, prev, kq, db, ps, sc, rk>>

\* The request that runs is suspended at its await and the other is polled.
Switch ==
    /\ peer.pc \notin {"idle", "ret"}
    /\ task' = peer /\ peer' = task
    /\ UNCHANGED <<registered, now, cache, stats, nreq, ticks, prev, kq, db, ps, sc, rk>>

NextPair ==
    \/ \E op \in Ops : \E a \in ArgsOf(op) : StartPair(op, a)
    \/ Switch
    \/ \E ok \in BOOLEAN : GetConn(ok)
    \/ \E ok \in BOOLEAN : CacheGet(ok)
    \/ Fetch
    \/ \E ok \in BOOLEAN : remove_osu_user_stats(ok)
    \/ \E ok \in BOOLEAN : upsert_osu_user(ok)
    \/ \E okSet \in BOOLEAN, okName \in BOOLEAN : CacheSet(okSet, okName)

SpecPair == Init /\ [][NextPair]_vars
\* ------------------------------------------------------------ key formatting
\* The cache and the request in progress, for the parts of the program that
\* run without them.
cachevars == <<registered, now, cache, stats, task, peer, nreq, ticks, prev>>
NoCache ==
    /\ registered = {} /\ now = 0 /\ cache = NoEntries /\ stats = [o \in Ops |-> 0]
    /\ task = IdleTask /\ peer = IdleTask /\ nreq = 0 /\ ticks = 0 /\ prev = NoPrev

\* Names of up to MaxKeyNameLen characters out of letters, digits, '_' and
\* ' ', and some longer ones that end like a key does.
KeyChars == {"a", "1", "_", " "}
KeyNames ==
    UNION {[1..n -> KeyChars] : n \in 1..MaxKeyNameLen}
      \cup { <<"a", "_", "1", "_", "0">>, <<"_", "a", "_", "1">>, <<"a", "1", "_", "_">>,
             <<"p", "p", "_", "r", "a", "n", "k", "i", "n", "g", "_", "0", "_", "1">> }
\* GameMode as u8: Osu = 0, Taiko = 1, Catch = 2, Mania = 3
KeyModes == 0..3
\* The requests whose keys are compared: every operation with the arguments
\* that identify what it caches.
KeyArgsOf(op) ==
    CASE op = "osu_user" ->
           {[NoArg EXCEPT !.name = n, !.mode = m] : n \in KeyNames, m \in KeyModes}
      [] op = "pp_ranking" ->
           {[NoArg EXCEPT !.mode = m, !.page = p, !.country = c] :
              m \in KeyModes, p \in {1, 2, 12},
              c \in {NoneV, Some(<<"2">>), Some(<<"d", "e">>), Some(<<"1", "_", "2">>)}}
      [] op = "osutracker_pp_group" -> {[NoArg EXCEPT !.pp = p] : p \in {1, 10, 100, 101}}
      [] op = "osekai_ranking" ->
           {[NoArg EXCEPT !.form = f] :
              f \in {<<"r">>, <<"m">>, <<"b", "a", "d", "g", "e", "s">>}}
      [] OTHER -> {NoArg}
KeyRequests == UNION {{[op |-> o, arg |-> a] : a \in KeyArgsOf(o)} : o \in Ops}

InitKeys ==
    /\ NoCache
    /\ kq \in {[pc |-> "args", a |-> x, b |-> y, ka |-> <<>>, kb |-> <<>>] :
                 x \in KeyRequests, y \in KeyRequests}
    /\ db = NoDb /\ ps = NoScores /\ sc = NoJoin /\ rk = NoRank

\* Two operations format their keys.
FormatKeys ==
    /\ kq.pc = "args"
    /\ kq' = [kq EXCEPT !.pc = "keys", !.ka = KeyOf(kq.a.op, kq.a.arg),
                        !.kb = KeyOf(kq.b.op, kq.b.arg)]
    /\ UNCHANGED <<cachevars, rk, db, ps, sc>>

NextKeys == FormatKeys
SpecKeys == InitKeys /\ [][NextKeys]_vars
\* -------------------------------------------------------- relational store
\* The tables osu_user_names (user_id -> username), osu_user_stats (one row
\* per user_id) and osu_user_stats_mode (one row per user_id and mode), and
\* the statement in progress on them.
NoRows == [names |-> [i \in {} |-> <<>>], stats |-> {}, mode_stats |-> {}]
NoCall == [op |-> "none"]
EmptyDb == [pc |-> "idle", rows |-> NoRows, tx |-> NoRows, call |-> NoCall, ncalls |-> 0]

\* Case folding of ILIKE.
Lower(c) == CASE c = "A" -> "a" [] c = "B" -> "b" [] OTHER -> c
\* string ILIKE pattern: '_' in the pattern stands for any one character,
\* '%' for any run of characters, every other character for itself in
\* either case.
RECURSIVE ILike(_, _)
ILike(str, pat) ==
    IF pat = <<>> THEN str = <<>>
    ELSE IF pat[1] = "%"
         THEN ILike(str, Tail(pat)) \/ (str # <<>> /\ ILike(Tail(str), pat))
    ELSE IF pat[1] = "_"
         THEN str # <<>> /\ ILike(Tail(str), Tail(pat))
    ELSE str # <<>> /\ Lower(str[1]) = Lower(pat[1]) /\ ILike(Tail(str), Tail(pat))

\* The user_ids that "USING osu_user_names N WHERE N.username ILIKE $1 AND
\* S.user_id = N.user_id" selects.
IdsLike(rows, pat) == {i \in DOMAIN rows.names : ILike(rows.names[i], pat)}

\* The names commands pass to remove_osu_user_stats: as typed, in any case.
TypedNames == Names \cup { <<"A", "_", "B">>, <<"A", "b">> }

InitDb ==
    /\ NoCache
    /\ db = EmptyDb
    /\ kq = NoKeys /\ ps = NoScores /\ sc = NoJoin /\ rk = NoRank

\* upsert_osu_user(user, mode) begins its transaction; hasStats tells
\* whether user.statistics is Some.
DbUpsertBegin(u, mode, hasStats, ok) ==
    /\ db.pc = "idle" /\ db.ncalls < MaxDbCalls
    /\ db' = [db EXCEPT !.pc = IF ok THEN "name_query" ELSE "idle",
                        !.tx = db.rows, !.ncalls = @ + 1,
                        !.call = [op |-> "upsert", user |-> u, mode |-> mode,
                                  hasStats |-> hasStats, before |-> db.rows,
                                  at |-> "begin",
                                  result |-> IF ok THEN "pending" ELSE "Err"]]
    /\ UNCHANGED <<cachevars, rk, kq, ps, sc>>

\* The statements executed on the pool, each committed by itself.
DbUpsertStatement_AutoCommit(ok) ==
    /\ db.pc \in {"name_query", "stats_query", "mode_stats_query", "commit"}
    /\ LET u == db.call.user IN
       LET d == [db EXCEPT !.call.at = db.pc] IN
       db' = IF ~ok
             THEN [d EXCEPT !.pc = "idle", !.call.result = "Err"]
             ELSE CASE db.pc = "name_query" ->
                         [d EXCEPT !.pc = "stats_query",
                            !.rows.names = [i \in DOMAIN @ \cup {u.user_id} |->
                                            IF i = u.user_id THEN u.username ELSE @[i]]]
                    [] db.pc = "stats_query" ->
                         [d EXCEPT !.pc = IF db.call.hasStats THEN "mode_stats_query"
                                           ELSE "commit",
                            !.rows.stats = @ \cup {u.user_id}]
                    [] db.pc = "mode_stats_query" ->
                         [d EXCEPT !.pc = "commit",
                            !.rows.mode_stats = @ \cup {<<u.user_id, db.call.mode>>}]
                    [] db.pc = "commit" ->
                         [d EXCEPT !.pc = "idle", !.call.result = "Ok"]
    /\ UNCHANGED <<cachevars, rk, kq, ps, sc>>

\* The next statement of the transaction: the three INSERT .. ON CONFLICT
\* DO UPDATE and the commit. A statement that fails ends the function with
\* the transaction dropped, which rolls it back.
DbUpsertStatement(ok) ==
    /\ db.pc \in {"name_query", "stats_query", "mode_stats_query", "commit"}
    /\ LET u == db.call.user IN
       LET d == [db EXCEPT !.call.at = db.pc] IN
       db' = IF ~ok
             THEN [d EXCEPT !.pc = "idle", !.tx = db.rows, !.call.result = "Err"]
             ELSE CASE db.pc = "name_query" ->
                         [d EXCEPT !.pc = "stats_query",
                            !.tx.names = [i \in DOMAIN @ \cup {u.user_id} |->
                                            IF i = u.user_id THEN u.username ELSE @[i]]]
                    [] db.pc = "stats_query" ->
                         [d EXCEPT !.pc = IF db.call.hasStats THEN "mode_stats_query"
                                           ELSE "commit",
                            !.tx.stats = @ \cup {u.user_id}]
                    [] db.pc = "mode_stats_query" ->
                         [d EXCEPT !.pc = "commit",
                            !.tx.mode_stats = @ \cup {<<u.user_id, db.call.mode>>}]
                    [] db.pc = "commit" ->
                         [d EXCEPT !.pc = "idle", !.rows = db.tx, !.call.result = "Ok"]
    /\ UNCHANGED <<cachevars, rk, kq, ps, sc>>

\* remove_osu_user_stats(user) is called.
DbRemoveBegin(n) ==
    /\ db.pc = "idle" /\ db.ncalls < MaxDbCalls
    /\ db' = [db EXCEPT !.pc = "delete_stats", !.ncalls = @ + 1,
                        !.call = [op |-> "remove", name |-> n, before |-> db.rows,
                                  result |-> "pending"]]
    /\ UNCHANGED <<cachevars, rk, kq, ps, sc>>

\* The two DELETE statements of remove_osu_user_stats, each executed on the
\* pool by itself; the first one that fails ends the function.
DbRemoveStatement(ok) ==
    /\ db.pc \in {"delete_stats", "delete_mode_stats"}
    /\ LET ids == IdsLike(db.rows, db.call.name) IN
       db' = IF ~ok
             THEN [db EXCEPT !.pc = "idle", !.call.result = "Err"]
             ELSE IF db.pc = "delete_stats"
             THEN [db EXCEPT !.pc = "delete_mode_stats", !.rows.stats = @ \ ids]
             ELSE [db EXCEPT !.pc = "idle", !.call.result = "Ok",
                     !.rows.mode_stats = {r \in @ : r[1] \notin ids}]
    /\ UNCHANGED <<cachevars, rk, kq, ps, sc>>

NextDb ==
    \/ \E n \in Names, mode \in Modes, hasStats \in BOOLEAN, ok \in BOOLEAN :
         DbUpsertBegin(UserOf(n, mode), mode, hasStats, ok)
    \/ \E ok \in BOOLEAN : DbUpsertStatement(ok)
    \/ \E n \in TypedNames : DbRemoveBegin(n)
    \/ \E ok \in BOOLEAN : DbRemoveStatement(ok)

SpecDb == InitDb /\ [][NextDb]_vars
\* ----------------------------------------------------------- prepare_scores
\* GameMode::Mania as u8
Mania == 3
\* A beatmap as the osu! API and the store know it: some maps have no
\* max_combo upstream.
MaxComboOf(id) == IF id % 7 = 0 THEN NoneV ELSE Some(100 + id)
MapOf(id, mode, combo) == [map_id |-> id, mode |-> mode, max_combo |-> combo]
\* The score lists the request of the scores may yield, n scores each:
\* scores of n distinct maps without max_combo; scores of which every
\* fourth has no map, a mania map, or a map with its max_combo; scores
\* that share their maps two by two.
ScoresOf(shape, n) ==
    [i \in 1..n |->
       CASE shape = "eligible" -> [map |-> Some(MapOf(i, 0, NoneV))]
         [] shape = "mixed" ->
              CASE i % 4 = 0 -> [map |-> NoneV]
                [] i % 4 = 1 -> [map |-> Some(MapOf(i, Mania, NoneV))]
                [] i % 4 = 2 -> [map |-> Some(MapOf(i, 0, MaxComboOf(i)))]
                [] OTHER -> [map |-> Some(MapOf(i, 0, NoneV))]
         [] shape = "shared" -> [map |-> Some(MapOf((i + 1) \div 2, 0, NoneV))]]
ScoreShapes == {"eligible", "mixed", "shared"}
ScoreCounts == {0, 1, ChunkSize - 1, ChunkSize, ChunkSize + 1, 2 * ChunkSize, MaxScores}

\* The filter of both passes over the scores.
Eligible(score) ==
    score.map.some /\ ~score.map.v.max_combo.some /\ score.map.v.mode # Mania
EligibleIds(scores) ==
    LET el == SelectSeq(scores, Eligible) IN [i \in 1..Len(el) |-> el[i].map.v.map_id]

\* What get_beatmaps_combo(ids) may answer: an error, or a map from some of
\* the ids to the stored combo, which may be NULL.
ComboAnswers == {"err", "none", "third", "nulls", "all"}
CombosOf(answer, ids) ==
    LET S == {ids[i] : i \in DOMAIN ids} IN
    CASE answer \in {"err", "none"} -> [i \in {} |-> NoneV]
      [] answer = "third" -> [i \in {x \in S : x % 3 = 0} |-> Some(100 + i)]
      [] answer = "nulls" -> [i \in S |-> NoneV]
      [] answer = "all" -> [i \in S |-> Some(100 + i)]

\* The second pass: combos of the store are filled in, the other ids remain.
Resolved(score, combos) ==
    /\ Eligible(score) /\ score.map.v.map_id \in DOMAIN combos
    /\ combos[score.map.v.map_id].some
WithCombos(scores, combos) ==
    [i \in DOMAIN scores |->
       IF Resolved(scores[i], combos)
       THEN [scores[i] EXCEPT !.map.v.max_combo = combos[scores[i].map.v.map_id]]
       ELSE scores[i]]
Unresolved(score, combos) == Eligible(score) /\ ~Resolved(score, combos)
\* The second pass without its skip of the scores the store resolved.
RemainingIds_AllEligible(scores, combos) == EligibleIds(scores)
RemainingIds(scores, combos) ==
    LET NotYet(score) == Unresolved(score, combos)
        el == SelectSeq(scores, NotYet)
    IN [i \in 1..Len(el) |-> el[i].map.v.map_id]

\* slice::chunks without the bound on the last chunk's end.
chunks_Whole(ids, k) == SubSeq(ids, ChunkSize * (k - 1) + 1, Len(ids))
\* slice::chunks(50): the k-th chunk.
chunks(ids, k) ==
    SubSeq(ids, ChunkSize * (k - 1) + 1,
           IF ChunkSize * k < Len(ids) THEN ChunkSize * k ELSE Len(ids))
NumChunks(ids) == (Len(ids) + ChunkSize - 1) \div ChunkSize

\* The maps beatmaps(ids) returns: one for each distinct id.
Distinct(ids) ==
    LET first == SelectSeq([i \in DOMAIN ids |-> i],
                           LAMBDA i : \A j \in 1..(i - 1) : ids[j] # ids[i])
    IN [k \in DOMAIN first |-> ids[first[k]]]
\* Of these, the maps with a max_combo that a score refers to: the ones
\* the loop body acts on.
Returned_Maps(ids, scores) ==
    LET Acts(id) == MaxComboOf(id).some
                      /\ \E i \in DOMAIN scores : scores[i].map.some
                                                   /\ scores[i].map.v.map_id = id
    IN SelectSeq(Distinct(ids), Acts)
\* iter_mut().filter_map(..).find(|m| m.map_id == map.map_id)
FindMap(scores, id) ==
    CHOOSE i \in DOMAIN scores :
      /\ scores[i].map.some /\ scores[i].map.v.map_id = id
      /\ \A j \in 1..(i - 1) : ~(scores[j].map.some /\ scores[j].map.v.map_id = id)

IdleScores ==
    [pc |-> "idle", scores |-> <<>>, map_ids |-> <<>>, k |-> 0, resp |-> <<>>,
     calls |-> <<>>, insert_err |-> FALSE, input |-> <<>>, result |-> NoResult,
     fn |-> "none", scores_ok |-> TRUE]

InitScores ==
    /\ NoCache
    /\ ps = IdleScores
    /\ kq = NoKeys /\ db = NoDb /\ sc = NoJoin /\ rk = NoRank

\* The request of the scores resolves and the first pass collects the ids.
prepare_scores(ok, shape, n) ==
    /\ ps.pc = "idle"
    /\ LET scores == ScoresOf(shape, n)
           ids == EligibleIds(scores)
           p == [IdleScores EXCEPT !.fn = "prepare_scores", !.scores_ok = ok]
       IN ps' = IF ~ok THEN [p EXCEPT !.pc = "done", !.result = Transient]
                ELSE IF ids = <<>>
                THEN [p EXCEPT !.pc = "done", !.scores = scores, !.input = scores,
                               !.result = Ok(scores)]
                ELSE [p EXCEPT !.pc = "read", !.scores = scores, !.input = scores,
                               !.map_ids = ids]
    /\ UNCHANGED <<cachevars, rk, kq, db, sc>>

\* After the maps of a chunk: the next chunk, or the end.
NextChunk(p) ==
    IF p.resp # <<>> THEN [p EXCEPT !.pc = "insert"]
    ELSE IF p.k < NumChunks(p.map_ids) THEN [p EXCEPT !.pc = "chunk", !.k = @ + 1]
    ELSE [p EXCEPT !.pc = "done", !.result = Ok(p.scores)]

\* get_beatmaps_combo(&map_ids) and the second pass.
get_beatmaps_combo(answer) ==
    /\ ps.pc = "read"
    /\ LET combos == CombosOf(answer, ps.map_ids)
           rest == RemainingIds(ps.scores, combos)
           p == [ps EXCEPT !.scores = WithCombos(ps.scores, combos), !.map_ids = rest,
                           !.calls = Append(@, [ev |-> "READ", ids |-> ps.map_ids,
                                                ok |-> answer # "err",
                                                combos |-> combos])]
       IN ps' = IF rest = <<>> THEN [p EXCEPT !.pc = "done", !.result = Ok(p.scores)]
                ELSE [p EXCEPT !.pc = "chunk", !.k = 1]
    /\ UNCHANGED <<cachevars, rk, kq, db, sc>>

\* ctx.osu().beatmaps(ids).await? for the next chunk.
beatmaps(ok) ==
    /\ ps.pc = "chunk"
    /\ LET ids == chunks(ps.map_ids, ps.k)
           p == [ps EXCEPT !.calls = Append(@, [ev |-> "BEATMAPS", ids |-> ids, ok |-> ok])]
       IN ps' = IF ~ok THEN [p EXCEPT !.pc = "done", !.result = Transient]
                ELSE NextChunk([p EXCEPT !.resp = Returned_Maps(ids, ps.scores)])
    /\ UNCHANGED <<cachevars, rk, kq, db, sc>>

\* The loop body with insert_beatmap(map).await? in place of the warning.
insert_beatmap_Propagates(ok) ==
    /\ ps.pc = "insert"
    /\ LET id == Head(ps.resp)
           i == FindMap(ps.scores, id)
           p == [ps EXCEPT !.scores[i].map.v.max_combo = MaxComboOf(id),
                           !.resp = Tail(@),
                           !.insert_err = @ \/ ~ok,
                           !.calls = Append(@, [ev |-> "INSERT", id |-> id])]
       IN ps' = IF ok THEN NextChunk(p)
                ELSE [p EXCEPT !.pc = "done", !.result = Transient]
    /\ UNCHANGED <<cachevars, rk, kq, db, sc>>

\* The loop body for the next returned map with a max_combo: the first
\* score of that map gets it and insert_beatmap is awaited, its error logged.
insert_beatmap(ok) ==
    /\ ps.pc = "insert"
    /\ LET id == Head(ps.resp)
           i == FindMap(ps.scores, id)
       IN ps' = NextChunk([ps EXCEPT !.scores[i].map.v.max_combo = MaxComboOf(id),
                             !.resp = Tail(@),
                             !.insert_err = @ \/ ~ok,
                             !.calls = Append(@, [ev |-> "INSERT", id |-> id])])
    /\ UNCHANGED <<cachevars, rk, kq, db, sc>>

\* prepare_score: the enrichment of one score. GameMode as u8: Osu 0,
\* Taiko 1, Catch 2, Mania 3. The scores it may be given.
SingleScores ==
    {[mode |-> m, map |-> NoneV] : m \in 0..3}
      \cup {[mode |-> m, map |-> Some(MapOf(id, m, c))] :
               m \in 0..3, id \in {1, 7}, c \in {NoneV, Some(5)}}
\* score.map.as_mut().filter(Osu | Catch).filter(max_combo.is_none())
valid_score(score) ==
    score.map.some /\ score.mode \in {0, 2} /\ ~score.map.v.max_combo.some

prepare_score(score) ==
    /\ ps.pc = "idle"
    /\ LET p == [IdleScores EXCEPT !.fn = "prepare_score", !.scores = <<score>>]
       IN ps' = IF valid_score(score) THEN [p EXCEPT !.pc = "read1"]
                ELSE [p EXCEPT !.pc = "done", !.result = Ok(p.scores)]
    /\ UNCHANGED <<cachevars, rk, kq, db, sc>>

\* if let Ok(Some(combo)) = get_beatmap_combo(map_id): the store answers an
\* error, no row or NULL, or a combo.
get_beatmap_combo(answer) ==
    /\ ps.pc = "read1"
    /\ LET id == ps.scores[1].map.v.map_id
           p == [ps EXCEPT !.calls = Append(@, [ev |-> "READ1", id |-> id,
                                                ok |-> answer # "err"])]
           q == [p EXCEPT !.scores[1].map.v.max_combo = Some(100 + id)]
       IN ps' = IF answer = "some"
                THEN [q EXCEPT !.pc = "done", !.result = Ok(q.scores)]
                ELSE [p EXCEPT !.pc = "fetch1"]
    /\ UNCHANGED <<cachevars, rk, kq, db, sc>>

\* ctx.osu().beatmap().map_id(map_id).await?
beatmap(ok) ==
    /\ ps.pc = "fetch1"
    /\ LET p == [ps EXCEPT !.calls = Append(@, [ev |-> "BEATMAP",
                                                id |-> ps.scores[1].map.v.map_id,
                                                ok |-> ok])]
       IN ps' = IF ok THEN [p EXCEPT !.pc = "insert1"]
                ELSE [p EXCEPT !.pc = "done", !.result = Transient]
    /\ UNCHANGED <<cachevars, rk, kq, db, sc>>

\* insert_beatmap(&beatmap), its error logged, then the score gets the
\* max_combo of the beatmap.
prepare_score_insert(ok) ==
    /\ ps.pc = "insert1"
    /\ LET id == ps.scores[1].map.v.map_id
           p == [ps EXCEPT !.scores[1].map.v.max_combo = MaxComboOf(id),
                           !.insert_err = ~ok,
                           !.calls = Append(@, [ev |-> "INSERT", id |-> id])]
       IN ps' = [p EXCEPT !.pc = "done", !.result = Ok(p.scores)]
    /\ UNCHANGED <<cachevars, rk, kq, db, sc>>

NextScores ==
    \/ \E ok \in BOOLEAN, shape \in ScoreShapes, n \in ScoreCounts : prepare_scores(ok, shape, n)
    \/ \E answer \in ComboAnswers : get_beatmaps_combo(answer)
    \/ \E ok \in BOOLEAN : beatmaps(ok)
    \/ \E ok \in BOOLEAN : insert_beatmap(ok)
    \/ \E score \in SingleScores : prepare_score(score)
    \/ \E answer \in {"err", "none", "some"} : get_beatmap_combo(answer)
    \/ \E ok \in BOOLEAN : beatmap(ok)
    \/ \E ok \in BOOLEAN : prepare_score_insert(ok)

SpecScores == InitScores /\ [][NextScores]_vars
\* ------------------------------------------------------ get_user_and_scores
\* The scores branch (get_scores) and the join of get_user_and_scores; the
\* user branch is the osu_user lookup in `task`.
IdleBranch == [pc |-> "idle", name |-> <<>>, mode |-> 0, trace |-> <<>>, result |-> NoResult]
IdleJoin ==
    [pc |-> "idle", orig |-> NoArg, alt |-> NoneV, user |-> NoResult,
     branch |-> IdleBranch, dropped |-> {}, result |-> NoResult]
\* get_scores(ctx, &user, scores) is polled for the first time.
StartBranch(name, mode) == [IdleBranch EXCEPT !.pc = "fetch", !.name = name, !.mode = mode]

\* The sets of names upstream may know while a command runs: also both
\* "a_b" and "a b".
JoinWorlds == Worlds \cup { { <<"a", "_", "b">>, <<"a", " ", "b">> } }
InitJoin ==
    /\ registered \in JoinWorlds
    /\ now = 0 /\ cache = NoEntries /\ stats = [o \in Ops |-> 0]
    /\ task = IdleTask /\ peer = IdleTask /\ nreq = 0 /\ ticks = 0 /\ prev = NoPrev
    /\ sc = IdleJoin
    /\ kq = NoKeys /\ db = NoDb /\ ps = NoScores /\ rk = NoRank

\* A branch of try_join! has completed with an error: the macro returns it
\* in the same poll, the other branch is not polled again.
UserFailed == sc.pc = "join" /\ task.pc = "ret" /\ task.result.kind # "Ok"
ScoresFailed == sc.pc = "join" /\ sc.branch.pc = "ret" /\ sc.branch.result.kind # "Ok"

\* A command calls get_user_and_scores(user, scores): a name with an
\* alternative is looked up by itself first, any other name is looked up
\* while its scores are requested.
get_user_and_scores(a) ==
    /\ sc.pc \in {"idle", "done"}
    /\ nreq < MaxJoins
    /\ LET alt == whitespaced_name(a.name) IN
       /\ task' = Begin(UserOp, a, a.name, <<>>)
       /\ sc' = IF alt.some
                THEN [IdleJoin EXCEPT !.pc = "first", !.orig = a, !.alt = alt]
                ELSE [IdleJoin EXCEPT !.pc = "join", !.orig = a,
                                      !.branch = StartBranch(a.name, a.mode)]
    /\ nreq' = nreq + 1
    /\ UNCHANGED <<registered, now, cache, stats, ticks, prev, peer, kq, db, ps, rk>>

\* The match with the scores of a found user requested under the
\* alternative name.
FirstLookup_ScoresUnderAlt ==
    /\ sc.pc = "first" /\ task.pc = "ret"
    /\ LET look == Append(task.lookups, [name |-> task.arg.name, key |-> task.key,
                                          via |-> task.via, result |-> task.result])
       IN CASE task.result.kind = "Ok" ->
                 /\ task' = [task EXCEPT !.pc = "done", !.lookups = look]
                 /\ sc' = [sc EXCEPT !.pc = "scores_only", !.user = task.result,
                                     !.branch = StartBranch(sc.alt.v, sc.orig.mode)]
            [] task.result.kind = "NotFound" ->
                 /\ task' = Begin(UserOp, [sc.orig EXCEPT !.name = sc.alt.v],
                                  sc.orig.name, look)
                 /\ sc' = [sc EXCEPT !.pc = "join",
                                     !.branch = StartBranch(sc.alt.v, sc.orig.mode)]
            [] OTHER ->
                 /\ task' = [task EXCEPT !.pc = "done", !.lookups = look]
                 /\ sc' = [sc EXCEPT !.pc = "done", !.result = task.result]
    /\ UNCHANGED <<registered, now, cache, stats, nreq, ticks, prev, peer, kq, db, ps, rk>>

\* The match on the first lookup of a name with an alternative.
FirstLookup ==
    /\ sc.pc = "first" /\ task.pc = "ret"
    /\ LET look == Append(task.lookups, [name |-> task.arg.name, key |-> task.key,
                                          via |-> task.via, result |-> task.result])
       IN CASE task.result.kind = "Ok" ->
                 /\ task' = [task EXCEPT !.pc = "done", !.lookups = look]
                 /\ sc' = [sc EXCEPT !.pc = "scores_only", !.user = task.result,
                                     !.branch = StartBranch(sc.orig.name, sc.orig.mode)]
            [] task.result.kind = "NotFound" ->
                 /\ task' = Begin(UserOp, [sc.orig EXCEPT !.name = sc.alt.v],
                                  sc.orig.name, look)
                 /\ sc' = [sc EXCEPT !.pc = "join",
                                     !.branch = StartBranch(sc.alt.v, sc.orig.mode)]
            [] OTHER ->
                 /\ task' = [task EXCEPT !.pc = "done", !.lookups = look]
                 /\ sc' = [sc EXCEPT !.pc = "done", !.result = task.result]
    /\ UNCHANGED <<registered, now, cache, stats, nreq, ticks, prev, peer, kq, db, ps, rk>>

\* get_scores with NotFound returned right away, the cleanup left to the
\* user lookup.
user_scores_NoCleanup(ok) ==
    /\ sc.branch.pc = "fetch" /\ ~UserFailed
    /\ LET out == IF ~ok THEN Transient
                  ELSE IF sc.branch.name \in registered THEN Ok(sc.branch.name)
                  ELSE NotFound
           b == [sc.branch EXCEPT !.trace = Append(@, [ev |-> "SCORES", name |-> sc.branch.name,
                                                       mode |-> sc.branch.mode,
                                                       out |-> out.kind])]
       IN sc' = [sc EXCEPT !.branch = [b EXCEPT !.pc = "ret", !.result = out]]
    /\ UNCHANGED <<cachevars, rk, kq, db, ps>>

\* get_scores: the request of the scores with prepare_scores applied to it
\* resolves; NotFound leads to the cleanup.
user_scores(ok) ==
    /\ sc.branch.pc = "fetch" /\ ~UserFailed
    /\ LET out == IF ~ok THEN Transient
                  ELSE IF sc.branch.name \in registered THEN Ok(sc.branch.name)
                  ELSE NotFound
           b == [sc.branch EXCEPT !.trace = Append(@, [ev |-> "SCORES", name |-> sc.branch.name,
                                                       mode |-> sc.branch.mode,
                                                       out |-> out.kind])]
       IN sc' = [sc EXCEPT !.branch = IF out = NotFound THEN [b EXCEPT !.pc = "remove"]
                                      ELSE [b EXCEPT !.pc = "ret", !.result = out]]
    /\ UNCHANGED <<cachevars, rk, kq, db, ps>>

\* get_scores: remove_osu_user_stats(user.name), its error only logged.
get_scores_remove(ok) ==
    /\ sc.branch.pc = "remove" /\ ~UserFailed
    /\ sc' = [sc EXCEPT !.branch.pc = "ret", !.branch.result = NotFound,
                        !.branch.trace = Append(@, [ev |-> "REMOVE", name |-> sc.branch.name,
                                                    ok |-> ok])]
    /\ UNCHANGED <<cachevars, rk, kq, db, ps>>

\* Ok(u) => Ok((u, get_scores(..).await?))
ScoresAlone ==
    /\ sc.pc = "scores_only" /\ sc.branch.pc = "ret"
    /\ sc' = [sc EXCEPT !.pc = "done",
                        !.result = IF sc.branch.result.kind = "Ok"
                                   THEN Ok(<<sc.user.val, sc.branch.result.val>>)
                                   ELSE sc.branch.result]
    /\ UNCHANGED <<cachevars, rk, kq, db, ps>>

\* tokio::try_join!(user_fut, scores_fut) returns: with the first error of
\* a branch, the other branch being dropped where it is suspended, or with
\* both values. A SET that is dropped while in flight may have reached the
\* backend or not.
try_join(landed) ==
    /\ sc.pc = "join"
    /\ UserFailed \/ ScoresFailed \/ (task.pc = "ret" /\ sc.branch.pc = "ret")
    /\ CASE UserFailed ->
              /\ sc' = [sc EXCEPT !.pc = "done", !.result = task.result,
                          !.dropped = IF sc.branch.pc = "ret" THEN {}
                                      ELSE {[who |-> "scores", at |-> sc.branch.pc]},
                          !.branch.pc = IF @ = "ret" THEN @ ELSE "dropped"]
              /\ task' = [task EXCEPT !.pc = "done"]
              /\ cache' = cache
         [] ScoresFailed ->
              /\ sc' = [sc EXCEPT !.pc = "done", !.result = sc.branch.result,
                          !.dropped = IF task.pc = "ret" THEN {}
                                      ELSE {[who |-> "user", at |-> task.pc]}]
              /\ task' = [task EXCEPT !.pc = IF @ = "ret" THEN "done" ELSE "dropped",
                                      !.conn = FALSE]
              /\ cache' = IF task.pc = "set" /\ landed
                          THEN SetEx(task.key, MissBytes(task.op, task.fetched.v),
                                     TtlOf(task.op))
                          ELSE cache
         [] OTHER ->
              /\ sc' = [sc EXCEPT !.pc = "done",
                          !.result = Ok(<<task.result.val, sc.branch.result.val>>)]
              /\ task' = [task EXCEPT !.pc = "done"]
              /\ cache' = cache
    /\ UNCHANGED <<registered, now, stats, nreq, ticks, prev, peer, kq, db, ps, rk>>

\* The steps of the user branch; it is polled as long as the join has not
\* returned.
UserBranch ==
    /\ ~ScoresFailed
    /\ \/ \E ok \in BOOLEAN : GetConn(ok)
       \/ \E ok \in BOOLEAN : CacheGet(ok)
       \/ Fetch
       \/ \E ok \in BOOLEAN : remove_osu_user_stats(ok)
       \/ \E ok \in BOOLEAN : upsert_osu_user(ok)
       \/ \E okSet \in BOOLEAN, okName \in BOOLEAN : CacheSet(okSet, okName)

NextJoin ==
    \/ \E a \in ArgsOf(UserOp) : get_user_and_scores(a)
    \/ FirstLookup
    \/ UserBranch
    \/ \E ok \in BOOLEAN : user_scores(ok)
    \/ \E ok \in BOOLEAN : get_scores_remove(ok)
    \/ ScoresAlone
    \/ \E landed \in BOOLEAN : try_join(landed)

SpecJoin == InitJoin /\ [][NextJoin]_vars
\* ------------------------------------------- approx_rank_from_pp, approx_pp_from_rank
\* The number of values of the unsigned word of the ranks. u32 has 2^32,
\* which the integers of the model checker cannot hold; the word is taken
\* with 16 bits, far above every rank of the rows, and wraps the same way.
U32 == 65536
\* The significant bits of a float. f32 has 24; the floats here have 3 and
\* round the same way, to the nearest float with ties to the even one, so
\* that integers up to 8 are exact as integers up to 2^24 are in f32.
MantissaBits == 3

\* A float is the fraction n / d in lowest terms, d a power of two.
Frac(n, d) == [n |-> n, d |-> d]
RECURSIVE Norm(_, _)
Norm(n, d) == IF d > 1 /\ n % 2 = 0 THEN Norm(n \div 2, d \div 2) ELSE Frac(n, d)
Le(a, b) == a.n * b.d <= b.n * a.d
Lt(a, b) == a.n * b.d < b.n * a.d
FMax(a, b) == IF Lt(a, b) THEN b ELSE a
FAbs(a) == IF a.n < 0 THEN Frac(0 - a.n, a.d) ELSE a
\* The fraction n / d, d > 0, rounded to the nearest float.
RoundF(n, d) ==
    IF n = 0 THEN Frac(0, 1)
    ELSE LET a == IF n < 0 THEN 0 - n ELSE n
             Num(k) == IF k >= 0 THEN a * 2^k ELSE a
             Den(k) == IF k >= 0 THEN d ELSE d * 2^(0 - k)
             k == CHOOSE x \in (0 - 18)..24 :
                    /\ 2^(MantissaBits - 1) * Den(x) <= Num(x)
                    /\ Num(x) < 2^MantissaBits * Den(x)
             q == Num(k) \div Den(k)
             r == Num(k) % Den(k)
             m == IF 2 * r > Den(k) \/ (2 * r = Den(k) /\ q % 2 = 1) THEN q + 1 ELSE q
             mag == IF k >= 0 THEN Norm(m, 2^k) ELSE Frac(m * 2^(0 - k), 1)
         IN IF n < 0 THEN Frac(0 - mag.n, mag.d) ELSE mag
\* The operations of f32: the exact result, rounded.
FAdd(a, b) == RoundF(a.n * b.d + b.n * a.d, a.d * b.d)
FSub(a, b) == RoundF(a.n * b.d - b.n * a.d, a.d * b.d)
FMul(a, b) == RoundF(a.n * b.n, a.d * b.d)
FDiv(a, b) == IF b.n < 0 THEN RoundF(0 - a.n * b.d, 0 - a.d * b.n)
              ELSE RoundF(a.n * b.d, a.d * b.n)
\* `as f32` of an integer and of the f64 of a row.
AsF32(i) == RoundF(i, 1)
\* `as u32` of a non-negative float: the fraction truncated, saturating.
AsU32(a) == IF a.n \div a.d < U32 THEN a.n \div a.d ELSE U32 - 1
\* f32::EPSILON, the distance from 1.0 to the next float, and 0.01
EPSILON == Frac(1, 2^(MantissaBits - 1))
Cent == RoundF(1, 100)
Zero == Frac(0, 1)

\* The rows the query streams: none, a row that fails to decode, or a row
\* with global_rank.unwrap_or(0) as u32 and pp.unwrap_or(0.0) as f32.
RowErr == [some |-> TRUE, err |-> TRUE]
Row(rank, pp) == [some |-> TRUE, err |-> FALSE, rank |-> rank, pp |-> pp]
Pps == {AsF32(p) : p \in 0..MaxPp}
Rows == {Row(r, p) : r \in 0..MaxRank, p \in Pps}
Neighbours ==
    {<<NoneV, NoneV>>, <<RowErr, NoneV>>}
      \cup {<<h, l>> : h \in Rows, l \in Rows \cup {NoneV, RowErr}}

Min(a, b) == IF a < b THEN a ELSE b
\* u32::saturating_sub with the difference taken modulo 2^32.
saturating_sub_Wrapping(a, b) == (a - b + U32) % U32
\* u32::saturating_sub
saturating_sub(a, b) == IF a > b THEN a - b ELSE 0
\* RangeInclusive::contains of a range that holds everything.
contains_Always(lo, hi, x) == TRUE
\* (lo..=hi).contains(&x)
contains(lo, hi, x) == Le(lo, x) /\ Le(x, hi)

\* approx_rank_from_pp after the query: the match on the first row, the
\* second row, and the branches.
approx_rank_from_pp(pp, higher, lower) ==
    IF ~higher.some THEN Ok(0)
    ELSE IF higher.err \/ (lower.some /\ lower.err) THEN Transient
    ELSE IF lower.some
    THEN IF ~contains(lower.pp, higher.pp, pp) THEN Transient
         ELSE IF Le(FAbs(FSub(higher.pp, lower.pp)), EPSILON)
         THEN Ok(saturating_sub(Min(lower.rank, higher.rank), 1))
         ELSE LET percent == FDiv(FSub(higher.pp, pp), FSub(higher.pp, lower.pp))
                  rank == FMul(percent, AsF32(saturating_sub(lower.rank, higher.rank)))
              IN Ok((higher.rank + AsU32(rank)) % U32)
    ELSE IF Lt(higher.pp, pp) THEN Ok(higher.rank)
    ELSE IF Lt(pp, higher.pp) \/ higher.rank > 0 THEN Ok((higher.rank + 1) % U32)
    ELSE Ok(0)

\* approx_pp_from_rank after the query. The subtractions of u32 are taken
\* modulo 2^32 and `underflow` tells whether one of them wrapped (a panic
\* in a build with overflow checks); `den` is the divisor of the percent.
approx_pp_from_rank(rank, higher, lower) ==
    LET plain(v) == [kind |-> "Ok", val |-> v, underflow |-> FALSE, den |-> 1]
        err == [kind |-> "Err", underflow |-> FALSE, den |-> 1]
    IN
    IF ~higher.some THEN plain(Zero)
    ELSE IF higher.err \/ (lower.some /\ lower.err) THEN err
    ELSE IF lower.some
    THEN IF ~contains(Frac(higher.rank, 1), Frac(lower.rank, 1), Frac(rank, 1)) THEN err
         ELSE IF lower.rank = higher.rank
         THEN plain(FAdd(FMax(lower.pp, higher.pp), Cent))
         ELSE LET num == (lower.rank - rank + U32) % U32
                  den == (lower.rank - higher.rank + U32) % U32
                  percent == FDiv(AsF32(num), AsF32(den))
                  pp == FMul(percent, FMax(FSub(higher.pp, lower.pp), Zero))
              IN [kind |-> "Ok", val |-> FAdd(lower.pp, pp),
                  underflow |-> lower.rank < rank \/ lower.rank < higher.rank,
                  den |-> den]
    ELSE IF higher.rank > rank THEN plain(FAdd(higher.pp, Cent))
    ELSE IF higher.rank < rank \/ Lt(Zero, higher.pp) THEN plain(FSub(higher.pp, Cent))
    ELSE plain(Zero)

\* A call of one of the two functions: its argument and the rows its query
\* streams.
RankFns == {"approx_rank_from_pp", "approx_pp_from_rank"}
InitRank ==
    /\ NoCache
    /\ kq = NoKeys /\ db = NoDb /\ ps = NoScores /\ sc = NoJoin
    /\ \E fn \in RankFns, nb \in Neighbours :
       \E x \in IF fn = "approx_rank_from_pp" THEN Pps ELSE 0..MaxRank :
         rk = [pc |-> "args", fn |-> fn, x |-> x, higher |-> nb[1], lower |-> nb[2],
               result |-> NoResult]

ApproxRank ==
    /\ rk.pc = "args" /\ rk.fn = "approx_rank_from_pp"
    /\ rk' = [rk EXCEPT !.pc = "done",
                        !.result = approx_rank_from_pp(rk.x, rk.higher, rk.lower)]
    /\ UNCHANGED <<cachevars, kq, db, ps, sc>>

ApproxPp ==
    /\ rk.pc = "args" /\ rk.fn = "approx_pp_from_rank"
    /\ rk' = [rk EXCEPT !.pc = "done",
                        !.result = approx_pp_from_rank(rk.x, rk.higher, rk.lower)]
    /\ UNCHANGED <<cachevars, kq, db, ps, sc>>

NextRank == ApproxRank \/ ApproxPp
SpecRank == InitRank /\ [][NextRank]_vars
\* ------------------------------------------------------------------ claims
\* The calls of the operation in progress, by kind.
Returned == task.pc \in {"ret", "done"}
Idx(kind) == {i \in DOMAIN task.trace : task.trace[i].ev = kind}
Calls(kind) == Cardinality(Idx(kind))
\* The value upstream holds for the arguments of the operation in progress.
UpstreamValue == IF task.op = UserOp THEN UserOf(task.arg.name, task.arg.mode)
                 ELSE PayloadOf(task.op, task.arg)

\* C1: when the GET of the computed key yields non-empty bytes, the operation
\* returns at once a value built from exactly those bytes; the GET is its
\* only call (no upstream request, no SET, no call of the relational store)
\* and the cache is as the operation found it.
C1_HitServedFromBytes ==
    \A i \in Idx("GET") :
      LET e == task.trace[i] IN
      (e.ok /\ e.bytes # <<>>) =>
        /\ Returned
        /\ task.trace = <<e>>
        /\ e.key = KeyOf(task.op, task.arg)
        /\ e.key \in DOMAIN task.cache0 /\ e.bytes = task.cache0[e.key].bytes
        /\ cache = task.cache0
        /\ task.result.kind = "Ok"
        /\ IF task.op = UserOp
           THEN SerializeUser(task.result.val) = e.bytes
           ELSE task.result.val = [buf |-> "Vec", bytes |-> e.bytes]

C1_Witness ==
    /\ task.pc = "ret" /\ task.op = UserOp /\ task.via = "hit"
    /\ task.result.kind = "Ok" /\ task.result.val.username = <<"a", " ", "b">>

\* C2: when no connection to the cache can be had, the operation makes no
\* GET and no SET, requests upstream exactly once and returns what upstream
\* answered: Ok with the fetched value when the request succeeded, the
\* upstream error otherwise, never the connection error.
C2_NoConnFallsThrough ==
    task.via = "noconn" =>
      /\ Calls("GET") = 0 /\ Calls("SET") = 0 /\ cache = task.cache0
      /\ task.trace[1].ev = "CONN_ERR"
      /\ Returned =>
           /\ Calls("FETCH") = 1 /\ task.trace[2].ev = "FETCH"
           /\ task.result.kind = task.trace[2].out
           /\ task.trace[2].out = "Ok" =>
                IF task.op = UserOp
                THEN task.result.val = UpstreamValue
                ELSE ToInner(task.result.val) = UpstreamValue

C2_Witness ==
    /\ task.pc = "ret" /\ task.via = "noconn" /\ task.result.kind = "Ok"
    /\ task.op = "pp_ranking" /\ task.arg.country.some

\* C3: empty bytes from a GET that succeeded are a miss: nothing is built
\* from them, the hit counter keeps its value, and the operation requests
\* upstream and, when that succeeds, writes the fetched value through under
\* the same key with the operation's expiry.
C3_EmptyIsMiss ==
    \A i \in Idx("GET") :
      LET e == task.trace[i] IN
      (e.ok /\ e.bytes = <<>>) =>
        /\ task.via = "miss"
        /\ stats = task.stats0
        /\ Returned =>
             /\ Calls("FETCH") = 1 /\ task.trace[i + 1].ev = "FETCH"
             /\ task.result.kind = task.trace[i + 1].out
             /\ task.trace[i + 1].out = "Ok" =>
                  /\ Calls("SET") = 1
                  /\ \A j \in Idx("SET") :
                       /\ task.trace[j].key = e.key
                       /\ task.trace[j].ttl = TtlOf(task.op)
                       /\ task.trace[j].bytes # <<>>
                       /\ task.trace[j].bytes =
                            IF task.op = UserOp
                            THEN SerializeUser([UpstreamValue EXCEPT !.page = NoneV])
                            ELSE SerializePlain(task.op, UpstreamValue)

C3_Witness ==
    /\ task.pc = "ret" /\ task.via = "miss" /\ task.op = "medals"
    /\ task.trace[1].ev = "GET" /\ task.trace[1].ok /\ task.trace[1].bytes = <<>>
    /\ Calls("SET") = 1 /\ task.key \in DOMAIN cache
\* C4: in osu_user, after upstream answered NotFound for the name N,
\* remove_osu_user_stats was called exactly once, with N, there was no SET
\* and no upsert, the cache is as the operation found it and the caller gets
\* NotFound; with and without a cache connection, whatever the delete did.
C4_NotFoundCleansOnce ==
    (task.op = UserOp /\ Returned
       /\ \E i \in Idx("FETCH") : task.trace[i].out = "NotFound") =>
      /\ Calls("FETCH") = 1
      /\ Calls("REMOVE") = 1
      /\ \A j \in Idx("REMOVE") : \A i \in Idx("FETCH") :
           /\ task.trace[j].name = task.arg.name
           /\ task.trace[j].name = task.trace[i].arg.name
      /\ Calls("SET") = 0 /\ Calls("UPSERT_USER") = 0 /\ Calls("UPSERT_NAME") = 0
      /\ cache = task.cache0
      /\ task.result = NotFound

C4_Witness ==
    /\ task.pc = "ret" /\ task.op = UserOp /\ task.via = "noconn"
    /\ task.result = NotFound /\ task.arg.name = <<"a", "_", "b">>
    /\ \E j \in Idx("REMOVE") : ~task.trace[j].ok

\* C5: after upstream failed with an error that is not NotFound, the
\* operation returns that error; the failed request is its last call and its
\* only upstream request, there was no delete, no upsert and no SET, and the
\* cache is as the operation found it. get_user ends with that lookup.
C5_TransientPropagates ==
    /\ (Returned /\ \E i \in Idx("FETCH") : task.trace[i].out = "Err") =>
         /\ task.result = Transient
         /\ Calls("FETCH") = 1
         /\ task.trace[Len(task.trace)].ev = "FETCH"
         /\ Calls("REMOVE") = 0 /\ Calls("UPSERT_USER") = 0
         /\ Calls("UPSERT_NAME") = 0 /\ Calls("SET") = 0
         /\ cache = task.cache0
    /\ \A k \in DOMAIN task.lookups :
         task.lookups[k].result = Transient =>
           task.pc = "done" /\ k = Len(task.lookups)

C5_Witness ==
    /\ task.pc = "done" /\ task.op = UserOp /\ task.result = Transient
    /\ task.orig = <<"a", "_", "b">> /\ Len(task.lookups) = 1
    /\ task.key \in DOMAIN cache /\ cache[task.key].bytes # <<>>

\* C6: get_user makes at most two osu_user lookups, and its result is the
\* result of its last lookup: after a first NotFound the second lookup's
\* result, success or NotFound, is final.
C6_SecondLookupFinal ==
    task.op = UserOp =>
      /\ Len(task.lookups) + (IF task.pc = "done" THEN 0 ELSE 1) <= 2
      /\ task.pc = "done" =>
           /\ Len(task.lookups) \in {1, 2}
           /\ task.result = task.lookups[Len(task.lookups)].result
           /\ Len(task.lookups) = 2 => task.lookups[1].result = NotFound

C6_Witness ==
    /\ task.pc = "done" /\ task.op = UserOp /\ task.orig = <<"a", "_", "b">>
    /\ Len(task.lookups) = 2 /\ task.lookups[1].result = NotFound
    /\ task.result.kind = "Ok" /\ task.result.val.username = <<"a", " ", "b">>

\* C7: get_user makes a second lookup exactly when the name neither starts
\* nor ends with '_', holds a '_' and the first lookup answered NotFound; the
\* second lookup is for the name with every '_' replaced by ' ', under a key
\* other than the first one's. Otherwise the first lookup is the only one
\* and its result is returned as it is.
HasInnerUnderscoreOnly(n) ==
    n[1] # "_" /\ n[Len(n)] # "_" /\ \E i \in DOMAIN n : n[i] = "_"
C7_SecondLookupIff ==
    (task.op = UserOp) =>
      LET n == task.orig
          second == Len(task.lookups) = 2 \/ (Len(task.lookups) = 1 /\ task.pc # "done")
          name2 == IF Len(task.lookups) = 2 THEN task.lookups[2].name ELSE task.arg.name
          key2 == IF Len(task.lookups) = 2 THEN task.lookups[2].key ELSE task.key
      IN /\ task.lookups = <<>> => task.arg.name = n /\ task.key = KeyOf(UserOp, task.arg)
         /\ task.lookups # <<>> => task.lookups[1].name = n
         /\ second =>
              /\ HasInnerUnderscoreOnly(n) /\ task.lookups[1].result = NotFound
              /\ Len(name2) = Len(n)
              /\ \A i \in DOMAIN n : name2[i] = IF n[i] = "_" THEN " " ELSE n[i]
              /\ key2 # task.lookups[1].key
              /\ key2 = KeyOf(UserOp, [task.arg EXCEPT !.name = name2])
         /\ task.pc = "done" =>
              /\ (HasInnerUnderscoreOnly(n) /\ task.lookups[1].result = NotFound) => second
              /\ ~second => Len(task.lookups) = 1 /\ task.result = task.lookups[1].result

C7_Witness ==
    /\ task.pc = "done" /\ task.op = UserOp /\ task.orig = <<"a", "_">>
    /\ task.result = NotFound /\ Len(task.lookups) = 1

\* C8: what an operation returns is decided by the primary lookup alone: Ok
\* after a hit or a successful upstream request, with the value upstream
\* holds, else the error upstream answered; the outcomes of set_ex,
\* upsert_osu_user, upsert_osu_name and remove_osu_user_stats do not enter.
C8_OutcomeFromPrimaryLookup ==
    Returned =>
      LET hit == \E i \in Idx("GET") : task.trace[i].ok /\ task.trace[i].bytes # <<>>
      IN /\ hit => task.result.kind = "Ok"
         /\ ~hit => /\ Calls("FETCH") = 1
                    /\ \A i \in Idx("FETCH") : task.result.kind = task.trace[i].out
         /\ task.result.kind = "Ok" =>
              IF task.op = UserOp
              THEN [task.result.val EXCEPT !.page = NoneV]
                     = [UpstreamValue EXCEPT !.page = NoneV]
              ELSE ToInner(task.result.val) = UpstreamValue

C8_Witness ==
    /\ task.pc = "ret" /\ task.op = UserOp /\ task.result.kind = "Ok"
    /\ \E i \in Idx("SET") : ~task.trace[i].ok
    /\ \E i \in Idx("UPSERT_USER") : ~task.trace[i].ok
    /\ \E i \in Idx("UPSERT_NAME") : ~task.trace[i].ok
\* C9: two consecutive osu_user lookups of one name and mode, with upstream
\* unchanged, return equal users, whichever path served each of them.
C9_IdempotentRead ==
    (task.pc = "done" /\ task.op = UserOp
       /\ prev.result.kind = "Ok" /\ task.result.kind = "Ok") =>
      task.result.val = prev.result.val

\* C10: an entry written by a miss at time t with expiry T, looked up again
\* under its key: a GET up to t+T-1 is a hit, served from the entry with no
\* other call; a GET from t+T+1 on is a miss, the operation requests
\* upstream again and, when that succeeds, issues a SET of the same key with
\* the same expiry T.
C10_TtlRespected ==
    (prev.set.some /\ Idx("GET") # {}) =>
      LET w == prev.set.v
          e == task.trace[1]
      IN (e.ok /\ e.key = w.key) =>
           /\ e.at <= w.at + w.ttl - 1 =>
                /\ task.via = "hit" /\ task.trace = <<e>> /\ e.bytes = w.bytes
                /\ Returned /\ task.result = Ok(HitValue(task.op, w.bytes))
                /\ cache = task.cache0
           /\ e.at >= w.at + w.ttl + 1 =>
                /\ task.via = "miss" /\ e.bytes = <<>>
                /\ Returned =>
                     /\ Calls("FETCH") = 1 /\ task.trace[2].ev = "FETCH"
                     /\ task.trace[2].out = "Ok" =>
                          /\ Calls("SET") = 1
                          /\ \A j \in Idx("SET") :
                               /\ task.trace[j].key = w.key
                               /\ task.trace[j].ttl = w.ttl
                               /\ task.trace[j].ok =>
                                    w.key \in DOMAIN cache /\ cache[w.key] = [bytes |-> task.trace[j].bytes,
                                                    at |-> task.trace[j].at,
                                                    exp |-> task.trace[j].at + w.ttl]

C10_Witness ==
    /\ task.pc = "ret" /\ task.op = UserOp /\ prev.set.some /\ prev.via = "hit"
    /\ task.via = "miss" /\ task.trace[1].ok
    /\ task.trace[1].at = prev.set.v.at + USER_SECONDS + 1
    /\ \E j \in Idx("SET") : task.trace[j].ok

\* C11: prepare_scores, given n >= 1 scores whose maps are all eligible and
\* none of which the store resolves, has issued when it returns Ok exactly
\* one get_beatmaps_combo, as its first call, and exactly ceil(n / 50)
\* beatmaps requests, each with at most 50 ids and together with the ids
\* of all scores in order; 130 scores give 1 read and 3 requests, never one
\* request per score.
PsIdx(kind) == {i \in DOMAIN ps.calls : ps.calls[i].ev = kind}
RECURSIVE Concat(_)
Concat(seqs) == IF seqs = <<>> THEN <<>> ELSE Head(seqs) \o Concat(Tail(seqs))
C11_BatchedCalls ==
    (ps.pc = "done" /\ ps.result.kind = "Ok" /\ ps.input # <<>>
       /\ (\A i \in DOMAIN ps.input : Eligible(ps.input[i]))
       /\ \A i \in PsIdx("READ") :
            \A x \in DOMAIN ps.calls[i].combos : ~ps.calls[i].combos[x].some) =>
      LET n == Len(ps.input)
          reqs == SelectSeq(ps.calls, LAMBDA c : c.ev = "BEATMAPS")
      IN /\ Cardinality(PsIdx("READ")) = 1 /\ ps.calls[1].ev = "READ"
         /\ Len(ps.calls[1].ids) = n
         /\ Len(reqs) = (n + 49) \div 50
         /\ Len(reqs) * 50 >= n /\ (Len(reqs) - 1) * 50 < n
         /\ \A j \in DOMAIN reqs : Len(reqs[j].ids) \in 1..50 /\ reqs[j].ok
         /\ Concat([j \in DOMAIN reqs |-> reqs[j].ids])
              = [i \in 1..n |-> ps.input[i].map.v.map_id]
         /\ n = 130 => Len(reqs) = 3

C11_Witness ==
    /\ ps.pc = "done" /\ ps.result.kind = "Ok" /\ Len(ps.input) = 130
    /\ \A i \in DOMAIN ps.input : Eligible(ps.input[i])
    /\ Cardinality(PsIdx("READ")) = 1 /\ ps.calls[1].ok /\ ps.calls[1].combos = <<>>
    /\ Cardinality(PsIdx("BEATMAPS")) = 3
    /\ Len(ps.calls[2].ids) = 50

\* C12: the hit counter of an operation grows by one in exactly the steps in
\* which a request of that operation is answered from the cache (the
\* operation returns Ok right after its GET, with no upstream request) and
\* keeps its value in every other step: not on a miss, an empty value, a GET
\* error or a connection failure. It never decreases, and at every moment of
\* a lookup it is the value the lookup found plus one if the lookup was a hit.
AnsweredFromCache ==
    /\ task.pc = "get" /\ task'.pc = "ret" /\ task'.result.kind = "Ok"
    /\ Len(task'.trace) = 1 /\ task'.trace[1].ev = "GET"
CountedOnce ==
    task.op \in Ops =>
      LET hit == \E i \in Idx("GET") : task.trace[i].ok /\ task.trace[i].bytes # <<>>
      IN stats = [task.stats0 EXCEPT ![task.op] = @ + (IF hit THEN 1 ELSE 0)]
C12_HitCounter ==
    [][ /\ \A o \in Ops :
             stats'[o] = stats[o] + (IF o = task.op /\ AnsweredFromCache THEN 1 ELSE 0)
        /\ CountedOnce' ]_vars

C12_Witness ==
    /\ task.pc = "done" /\ task.op = "pp_ranking" /\ task.via = "hit"
    /\ stats["pp_ranking"] = 1 /\ task.stats0["pp_ranking"] = 0
    /\ \A o \in Ops \ {"pp_ranking"} : stats[o] = 0
    /\ nreq = 2

\* C15: no connection to the cache is held while the upstream request or a
\* call of the relational store is awaited: the connection had for the GET
\* is given back before them.
C15_ConnReleasedBeforeFetch ==
    task.pc \in {"fetch", "remove", "upsert"} => ~task.conn

\* C16: when a branch of get_user_and_scores fails, the other branch is not
\* dropped while it has a cache SET or a write of the relational store in
\* flight: such a write is carried to its end.
C16_NoWriteAborted ==
    \A d \in sc.dropped : d.at \notin {"set", "upsert", "remove"}

\* C17: in every lookup the upstream request comes right after the cache
\* check (the GET, or the failed request for a connection) and is the only
\* one; a GET is the first call; the SET and every upsert come after an
\* upstream request that answered Ok.
C17_StepsOrdered ==
    /\ Idx("GET") \cup Idx("CONN_ERR") \subseteq {1}
    /\ task.pc \in {"fetch", "remove", "upsert", "set"} => task.trace # <<>>
    /\ \A i \in Idx("FETCH") : i = 2 /\ task.trace[1].ev \in {"GET", "CONN_ERR"}
    /\ \A j \in Idx("SET") \cup Idx("UPSERT_USER") \cup Idx("UPSERT_NAME") :
         /\ j > 2 /\ task.trace[2].ev = "FETCH" /\ task.trace[2].out = "Ok"
    /\ \A j \in Idx("SET") : task.trace[1].ev = "GET"

C17_Witness ==
    /\ task.pc = "ret" /\ task.op = UserOp /\ task.via = "miss"
    /\ Len(task.trace) = 5 /\ task.trace[2].ev = "FETCH" /\ task.trace[4].ev = "SET"

\* C18 as stated: in osu_user the cache write of the fetched user is issued
\* before the upsert of that user in the relational store.
C18_SetBeforeUpsert ==
    task.op = UserOp =>
      \A i \in Idx("SET") : \A j \in Idx("UPSERT_USER") : i < j

\* C18: on a miss with a successful upstream request osu_user makes its
\* calls in the order GET, upstream request, upsert_osu_user, then the SET
\* together with upsert_osu_name: the upsert of the fetched user is issued
\* before the cache write, and the SET is not issued before it returned.
C18_UpsertBeforeSet ==
    (task.op = UserOp /\ task.via = "miss"
       /\ \E i \in Idx("FETCH") : task.trace[i].out = "Ok") =>
      /\ task.pc \in {"upsert", "set", "ret", "done"}
      /\ task.pc = "upsert" => [i \in DOMAIN task.trace |-> task.trace[i].ev] = <<"GET", "FETCH">>
      /\ task.pc = "set" =>
           [i \in DOMAIN task.trace |-> task.trace[i].ev] = <<"GET", "FETCH", "UPSERT_USER">>
      /\ Returned =>
           [i \in DOMAIN task.trace |-> task.trace[i].ev]
             = <<"GET", "FETCH", "UPSERT_USER", "SET", "UPSERT_NAME">>

C18_Witness ==
    /\ task.pc = "ret" /\ task.op = UserOp /\ task.via = "miss"
    /\ task.result.kind = "Ok" /\ task.trace[3].ev = "UPSERT_USER" /\ task.trace[3].ok
    /\ task.trace[4].ev = "SET" /\ task.trace[4].ok

\* C19 as stated: the SET of a miss holds the serialization of the value
\* just fetched.
C19_SetHoldsFetched ==
    (Returned /\ task.via = "miss" /\ \E i \in Idx("FETCH") : task.trace[i].out = "Ok") =>
      /\ Calls("SET") = 1
      /\ \A j \in Idx("SET") :
           task.trace[j].bytes = IF task.op = UserOp THEN SerializeUser(UpstreamValue)
                                 ELSE SerializePlain(task.op, UpstreamValue)

\* C19: after a miss (empty bytes or a failed GET) with a connection and a
\* successful upstream request, exactly one SET was issued, with the key
\* that was read, the expiry of the operation (user 600, pp ranking 1800,
\* medals 3600, badges 7200, osekai ranking 7200, osutracker stats, pp group
\* and counts 86400) and the serialization of the fetched value; of a user,
\* the serialization of the fetched user with its page removed.
C19_SetOnMiss ==
    (Returned /\ task.via = "miss" /\ \E i \in Idx("FETCH") : task.trace[i].out = "Ok") =>
      /\ Calls("SET") = 1
      /\ \A j \in Idx("SET") :
           /\ task.trace[1].ev = "GET" /\ task.trace[j].key = task.trace[1].key
           /\ task.trace[j].key = KeyOf(task.op, task.arg)
           /\ task.trace[j].bytes =
                IF task.op = UserOp
                THEN SerializeUser([UpstreamValue EXCEPT !.page = NoneV])
                ELSE SerializePlain(task.op, UpstreamValue)
           /\ task.trace[j].ttl =
                CASE task.op = "osu_user" -> 600
                  [] task.op = "pp_ranking" -> 1800
                  [] task.op = "medals" -> 3600
                  [] task.op \in {"badges", "osekai_ranking"} -> 7200
                  [] OTHER -> 86400
           /\ task.trace[j].ok =>
                /\ task.key \in DOMAIN cache
                /\ cache[task.key] = [bytes |-> task.trace[j].bytes, at |-> now,
                                      exp |-> now + task.trace[j].ttl]

C19_Witness ==
    /\ task.pc = "ret" /\ task.op = "badges" /\ task.via = "miss"
    /\ ~task.trace[1].ok
    /\ \E j \in Idx("SET") : task.trace[j].ok /\ task.trace[j].ttl = 7200

\* C20: in osu_user every upstream request that answered Ok is followed, as
\* the next call, by exactly one upsert_osu_user of the fetched user and the
\* requested mode: without a connection, after a failed GET, after a miss,
\* and whatever the SET does afterwards.
C20_UpsertAfterFetch ==
    task.op = UserOp =>
      \A i \in Idx("FETCH") :
        task.trace[i].out = "Ok" =>
          \/ task.pc = "upsert" /\ Calls("UPSERT_USER") = 0 /\ i = Len(task.trace)
          \/ /\ Calls("UPSERT_USER") = 1
             /\ task.trace[i + 1].ev = "UPSERT_USER"
             /\ task.trace[i + 1].user = UpstreamValue
             /\ task.trace[i + 1].user.username = task.arg.name
             /\ task.trace[i + 1].mode = task.arg.mode

C20_Witness ==
    /\ task.pc = "ret" /\ task.op = UserOp /\ task.via = "miss" /\ task.arg.mode = 1
    /\ ~task.trace[1].ok /\ Calls("UPSERT_USER") = 1
    /\ \E j \in Idx("SET") : ~task.trace[j].ok

\* C13: two requests are given the same key only if they are requests of
\* the same operation with the same identifying arguments: user name and
\* mode, ranking mode, page and country, pp value, ranking form.
C13_KeysInjective ==
    kq.pc = "keys" =>
      /\ kq.ka = KeyOf(kq.a.op, kq.a.arg) /\ kq.kb = KeyOf(kq.b.op, kq.b.arg)
      /\ kq.ka = kq.kb => kq.a = kq.b

C13_Witness ==
    /\ kq.pc = "keys"
    /\ kq.a = [op |-> UserOp, arg |-> [NoArg EXCEPT !.name = <<"a", "_">>, !.mode = 1]]
    /\ kq.b = [op |-> UserOp, arg |-> [NoArg EXCEPT !.name = <<"a">>, !.mode = 1]]
    /\ kq.ka = <<"_", "_", "a", "_", "_", "1">> /\ kq.kb = <<"_", "_", "a", "_", "1">>

\* C14: remove_osu_user_stats(N) deletes stats rows only of users whose
\* stored username is N up to case: during and after the call, every user
\* with another username has the rows it had when the call began.
LowerAll(name) == [i \in DOMAIN name |-> Lower(name[i])]
C14_RemoveOnlyNamed ==
    db.call.op = "remove" =>
      \A i \in DOMAIN db.call.before.names :
        LowerAll(db.call.before.names[i]) # LowerAll(db.call.name) =>
          /\ i \in db.rows.stats <=> i \in db.call.before.stats
          /\ \A m \in Modes : <<i, m>> \in db.rows.mode_stats
                                <=> <<i, m>> \in db.call.before.mode_stats
\* C22: when prepare_scores returns Ok, every eligible score of its input
\* whose beatmap has a combo in the store's answer or in the upstream
\* response has that combo as its max_combo, also when several scores refer
\* to the same beatmap, and every beatmap with a combo that upstream
\* returned was handed to insert_beatmap.
StoreCombos == IF PsIdx("READ") = {} THEN <<>> ELSE ps.calls[1].combos
ComboFor(id) ==
    IF id \in DOMAIN StoreCombos /\ StoreCombos[id].some THEN StoreCombos[id]
    ELSE MaxComboOf(id)
C22_AllFilled ==
    (ps.fn = "prepare_scores" /\ ps.pc = "done" /\ ps.result.kind = "Ok") =>
      /\ \A i \in DOMAIN ps.input :
           (Eligible(ps.input[i]) /\ ComboFor(ps.input[i].map.v.map_id).some) =>
             ps.scores[i].map.v.max_combo = ComboFor(ps.input[i].map.v.map_id)
      /\ \A j \in PsIdx("BEATMAPS") : \A x \in DOMAIN ps.calls[j].ids :
           MaxComboOf(ps.calls[j].ids[x]).some =>
             \E e \in PsIdx("INSERT") : ps.calls[e].id = ps.calls[j].ids[x]

\* C24: every beatmaps request of prepare_scores comes after the one
\* get_beatmaps_combo, which is the first call, and asks only for ids of
\* eligible scores that this read left without a combo.
C24_ReadBeforeUpstream ==
    \A j \in PsIdx("BEATMAPS") :
      /\ ps.calls[1].ev = "READ" /\ j > 1 /\ Cardinality(PsIdx("READ")) = 1
      /\ \A x \in DOMAIN ps.calls[j].ids :
           LET id == ps.calls[j].ids[x] IN
           /\ \E i \in DOMAIN ps.input :
                Eligible(ps.input[i]) /\ ps.input[i].map.v.map_id = id
           /\ ~(id \in DOMAIN StoreCombos /\ StoreCombos[id].some)

C24_Witness ==
    /\ ps.fn = "prepare_scores" /\ ps.pc = "done" /\ ps.result.kind = "Ok"
    /\ Cardinality(PsIdx("BEATMAPS")) = 2
    /\ ps.calls[1].ev = "READ" /\ ps.calls[1].ok
    /\ \E id \in DOMAIN StoreCombos : StoreCombos[id].some
    /\ Len(ps.calls[2].ids) = ChunkSize /\ Len(ps.calls[1].ids) = MaxScores

\* C25: prepare_scores and prepare_score return Ok exactly when all their
\* upstream requests succeed, whatever the store answers: after a failed
\* get_beatmaps_combo the ids of all eligible scores are requested upstream,
\* after a failed get_beatmap_combo the beatmap is requested upstream, and
\* a failed insert_beatmap changes nothing.
UpstreamIdx == PsIdx("BEATMAPS") \cup PsIdx("BEATMAP")
C25_OkUnlessUpstreamFails ==
    ps.pc = "done" =>
      /\ ps.result.kind = "Ok"
           <=> (ps.scores_ok /\ \A i \in UpstreamIdx : ps.calls[i].ok)
      /\ (ps.result.kind = "Ok" /\ \E i \in PsIdx("READ") : ~ps.calls[i].ok) =>
           Concat(SelectSeq([i \in DOMAIN ps.calls |->
                               IF ps.calls[i].ev = "BEATMAPS" THEN ps.calls[i].ids
                               ELSE <<>>], LAMBDA c : TRUE))
             = EligibleIds(ps.input)
      /\ \A i \in PsIdx("READ1") :
           ~ps.calls[i].ok =>
             /\ i + 1 \in PsIdx("BEATMAP")
             /\ ps.calls[i + 1].id = ps.calls[i].id

C25_Witness ==
    /\ ps.fn = "prepare_scores" /\ ps.pc = "done" /\ ps.result.kind = "Ok"
    /\ PsIdx("READ") # {} /\ ~ps.calls[1].ok /\ ps.insert_err
    /\ Cardinality(PsIdx("BEATMAPS")) = 3
\* C23: when both the user lookup and the scores request that
\* get_user_and_scores runs side by side receive NotFound for a name,
\* remove_osu_user_stats is invoked for that name once in the request.
UserGotNotFound ==
    \E i \in DOMAIN task.trace : task.trace[i].ev = "FETCH" /\ task.trace[i].out = "NotFound"
ScoresGotNotFound ==
    \E i \in DOMAIN sc.branch.trace :
      sc.branch.trace[i].ev = "SCORES" /\ sc.branch.trace[i].out = "NotFound"
\* The invocations of remove_osu_user_stats(name) by the two branches:
\* completed, in flight, or dropped in flight.
UserRemoves(name) ==
    IF task.arg.name = name
       /\ \/ task.pc = "remove"
          \/ \E i \in DOMAIN task.trace : task.trace[i].ev = "REMOVE"
          \/ [who |-> "user", at |-> "remove"] \in sc.dropped
    THEN 1 ELSE 0
ScoresRemoves(name) ==
    IF sc.branch.name = name
       /\ \/ sc.branch.pc = "remove"
          \/ \E i \in DOMAIN sc.branch.trace : sc.branch.trace[i].ev = "REMOVE"
          \/ [who |-> "scores", at |-> "remove"] \in sc.dropped
    THEN 1 ELSE 0
BothNotFound ==
    sc.pc \in {"join", "done"} /\ UserGotNotFound /\ ScoresGotNotFound
C23_RemoveOnce ==
    BothNotFound => UserRemoves(task.arg.name) + ScoresRemoves(task.arg.name) = 1

\* C23, amended: each of the two branches invokes remove_osu_user_stats for
\* the name when it receives NotFound, so the function is invoked twice for
\* that name, once per branch.
C23_RemovePerBranch ==
    BothNotFound =>
      /\ sc.branch.name = task.arg.name
      /\ UserRemoves(task.arg.name) = 1 /\ ScoresRemoves(task.arg.name) = 1

C23_Witness ==
    /\ BothNotFound /\ sc.pc = "done" /\ sc.result = NotFound
    /\ \E d \in sc.dropped : d.at = "remove"
    /\ Len(task.lookups) = 1
\* C29: when get_user_and_scores returns Ok((user, scores)), the scores were
\* requested once, under the name of the lookup that returned the user: the
\* original name when it has no alternative or its lookup succeeded, the
\* alternative name when the lookup of the original name answered NotFound.
FirstNotFound ==
    Len(task.lookups) = 1 /\ task.lookups[1].result.kind = "NotFound"
C29_ScoresUnderUserName ==
    (sc.pc = "done" /\ sc.result.kind = "Ok") =>
      LET reqs == {i \in DOMAIN sc.branch.trace : sc.branch.trace[i].ev = "SCORES"}
          name == IF sc.alt.some /\ FirstNotFound THEN sc.alt.v ELSE sc.orig.name
      IN /\ Cardinality(reqs) = 1
         /\ \A i \in reqs : sc.branch.trace[i].name = name
                             /\ sc.branch.trace[i].mode = sc.orig.mode
         /\ task.arg.name = name /\ task.result.kind = "Ok"
         /\ sc.result.val[1] = task.result.val
         /\ sc.result.val[1].user_id = UserId(name)
         /\ sc.result.val[2] = name

C29_Witness ==
    /\ sc.pc = "done" /\ sc.result.kind = "Ok"
    /\ sc.alt.some /\ sc.alt.v \in registered /\ sc.result.val[2] = sc.orig.name
\* C30: upsert_osu_user is atomic: while it runs and when its begin, one of
\* its statements or its commit fails, the rows of the store are the ones
\* from before the call; when it returns Ok the name row, the stats row
\* and, with statistics, the mode stats row are all there.
C30_UpsertAtomic ==
    db.call.op = "upsert" =>
      LET u == db.call.user IN
      /\ db.call.result \in {"pending", "Err"} => db.rows = db.call.before
      /\ db.call.result = "Ok" =>
           /\ u.user_id \in DOMAIN db.rows.names
           /\ db.rows.names[u.user_id] = u.username
           /\ u.user_id \in db.rows.stats
           /\ db.call.hasStats => <<u.user_id, db.call.mode>> \in db.rows.mode_stats
           /\ ~db.call.hasStats => db.rows.mode_stats = db.call.before.mode_stats
           /\ \A i \in DOMAIN db.call.before.names :
                i # u.user_id => /\ i \in DOMAIN db.rows.names
                                 /\ db.rows.names[i] = db.call.before.names[i]

C30_Witness ==
    /\ db.call.op = "upsert" /\ db.call.result = "Err" /\ db.call.at = "commit"
    /\ db.call.hasStats /\ db.pc = "idle"
    /\ db.rows = db.call.before /\ db.call.user.user_id \notin DOMAIN db.rows.names
    /\ db.rows.names # <<>>
\* C28: every entry of the cache sits under the key of an operation and
\* arguments whose upstream request answers Ok, and holds the serialization
\* of the value of that answer; a request changes no entry but the one of
\* its own key, and none at all unless its upstream request answered Ok.
FetchedOk == \E i \in Idx("FETCH") : task.trace[i].out = "Ok"
Changed == {k \in DOMAIN cache : k \notin DOMAIN task.cache0 \/ cache[k] # task.cache0[k]}
OwnKeyOnly ==
    /\ DOMAIN task.cache0 \subseteq DOMAIN cache
    /\ Changed \subseteq {task.key}
    /\ Changed # {} => FetchedOk /\ task.key = KeyOf(task.op, task.arg)
    /\ (Returned /\ task.result.kind # "Ok") => Changed = {}
C28_EntriesAreFetched ==
    /\ \A k \in DOMAIN cache :
         \E op \in Ops : \E a \in ArgsOf(op) :
           /\ k = KeyOf(op, a)
           /\ Ok(IF op = UserOp THEN UserOf(a.name, a.mode) ELSE PayloadOf(op, a))
                \in UpstreamOutcomes(op, a)
           /\ cache[k].bytes = IF op = UserOp THEN SerializeUser(UserOf(a.name, a.mode))
                                ELSE SerializePlain(op, PayloadOf(op, a))
    /\ OwnKeyOnly

\* C28, amended: the entry of a user holds the serialization of the fetched
\* user with its page removed.
C28_EntriesArePagelessFetched ==
    /\ \A k \in DOMAIN cache :
         \E op \in Ops : \E a \in ArgsOf(op) :
           /\ k = KeyOf(op, a)
           /\ Ok(IF op = UserOp THEN UserOf(a.name, a.mode) ELSE PayloadOf(op, a))
                \in UpstreamOutcomes(op, a)
           /\ cache[k].bytes =
                IF op = UserOp
                THEN SerializeUser([UserOf(a.name, a.mode) EXCEPT !.page = NoneV])
                ELSE SerializePlain(op, PayloadOf(op, a))
    /\ OwnKeyOnly

C28_Witness ==
    /\ Returned /\ task.op = UserOp /\ FetchedOk
    /\ task.cache0 # NoEntries /\ Changed = {task.key}
    /\ UserOf(task.arg.name, task.arg.mode).page.some
\* C21: two requests of one operation and arguments that run at the same
\* time with upstream unchanged may both miss and both request upstream;
\* when both have returned Ok they have returned the same value, and the
\* entry of the key, once written, holds that value.
ValueOf(t) == IF t.op = UserOp THEN t.result.val ELSE t.result.val.bytes
EntryValue(t) ==
    IF t.op = UserOp THEN DeserializeUser(cache[t.key].bytes) ELSE cache[t.key].bytes
BothReturnedOk ==
    /\ task.pc = "ret" /\ peer.pc = "ret"
    /\ task.result.kind = "Ok" /\ peer.result.kind = "Ok"
C21_SameValue ==
    BothReturnedOk =>
      /\ ValueOf(task) = ValueOf(peer)
      /\ task.key \in DOMAIN cache => EntryValue(task) = ValueOf(task)
\* C26: approx_rank_from_pp with both neighbour rows returns an error when
\* pp is outside [lower_pp, higher_pp]; min(lower_rank, higher_rank) - 1,
\* not below 0, when the two rows have equal pp; otherwise higher_rank plus
\* the truncated product of (higher_pp - pp) / (higher_pp - lower_pp) and
\* lower_rank - higher_rank (0 when negative), a rank r with
\* higher_rank <= r <= max(higher_rank, lower_rank). With no row it
\* returns 0.
BothRows == rk.higher.some /\ ~rk.higher.err /\ rk.lower.some /\ ~rk.lower.err
C27_PpFromRank ==
    (rk.pc = "done" /\ rk.fn = "approx_pp_from_rank" /\ BothRows) =>
      LET h == rk.higher
          l == rk.lower
      IN /\ (rk.x < h.rank \/ rk.x > l.rank) => rk.result.kind = "Err"
         /\ h.rank > l.rank => rk.result.kind = "Err"
         /\ (rk.result.kind = "Ok" /\ l.rank # h.rank) =>
              /\ ~rk.result.underflow
              /\ rk.result.den # 0
              /\ Le(l.pp, rk.result.val)
              /\ Le(rk.result.val, FMax(l.pp, h.pp))

\* C27, amended: the result is at least lower_pp and exceeds
\* max(lower_pp, higher_pp) by no more than the rounding of the float
\* operations: it is at most max(lower_pp, higher_pp) * (1 + EPSILON).
C27_PpFromRankRounded ==
    (rk.pc = "done" /\ rk.fn = "approx_pp_from_rank" /\ BothRows) =>
      LET h == rk.higher
          l == rk.lower
          top == FMax(l.pp, h.pp)
      IN /\ (rk.x < h.rank \/ rk.x > l.rank) => rk.result.kind = "Err"
         /\ h.rank > l.rank => rk.result.kind = "Err"
         /\ (rk.result.kind = "Ok" /\ l.rank # h.rank) =>
              /\ ~rk.result.underflow
              /\ rk.result.den # 0
              /\ Le(l.pp, rk.result.val)
              /\ Le(rk.result.val,
                    Frac(top.n * (EPSILON.d + EPSILON.n), top.d * EPSILON.d))

C27_Witness ==
    /\ rk.pc = "done" /\ rk.fn = "approx_pp_from_rank" /\ BothRows
    /\ rk.higher.rank = 1 /\ rk.lower.rank = 4
    /\ rk.higher.pp = Frac(14, 1) /\ rk.lower.pp = Frac(3, 1)
    /\ rk.x = 1 /\ rk.result.kind = "Ok" /\ rk.result.val = Frac(16, 1)
====
